---- MODULE Spec2Model ----
(***************************************************************************)
(* A model of aiatools: the node forest built by the blocks/form readers,  *)
(* the expression algebra, the attribute library and the selector and      *)
(* aggregation engine.                                                     *)
(*                                                                         *)
(* Python objects are numbered: a node is its index in project.nodes, an   *)
(* expression object is its index in heap; the index is the object's       *)
(* identity (`is`).  None is the node 0.  Python values that may be of     *)
(* several types are tagged pairs <<tag, payload>>.                        *)
(***************************************************************************)
EXTENDS Integers, Sequences, FiniteSets, TLC

VARIABLES
    project,      \* the loaded forest: nodes (blocks, components), screens' _blocks
    precomputed,  \* HeightAttribute.precomputed of the shared `height` singleton
    heap,         \* the expression objects built so far
    env,          \* the graphs of the opaque callables handed to the engine
    sel,          \* the current selection (a Selector's _collection)
    res           \* the last operation: its name, arguments and outcome

vars == <<project, precomputed, heap, env, sel, res>>

\* ------------------------------------------------------------------ bounds
MaxBlocks == 3
MaxComps == 4
MaxScreens == 2
MaxHeap == 6
MaxSelNodes == 3
MaxElems == 3
MaxProcs == 4
MaxReduce == 3
MaxFunctors == 5
MaxAbsent == 2
MaxLegacyComps == 2
MaxViewElems == 2

\* ------------------------------------------------------- Python primitives
None == 0

PyNone == <<"none", 0>>
PyInt(i) == <<"int", i>>
PyStr(s) == <<"str", s>>
PyBool(b) == <<"bool", b>>
PyNode(n) == IF n = None THEN PyNone ELSE <<"node", n>>

Max2(a, b) == IF a >= b THEN a ELSE b

RECURSIVE SeqMax(_)
SeqMax(s) == IF Len(s) = 1 THEN s[1] ELSE Max2(s[1], SeqMax(Tail(s)))

RECURSIVE Flatten(_)
\* reduce(list.__add__, lists, [])
Flatten(ss) == IF ss = <<>> THEN <<>> ELSE Head(ss) \o Flatten(Tail(ss))

Range(s) == {s[i] : i \in 1..Len(s)}

\* A dict is the sequence of its <<key, value>> pairs in insertion order.
DictKeys(d) == [i \in 1..Len(d) |-> d[i][1]]
DictValues(d) == [i \in 1..Len(d) |-> d[i][2]]
DictHas(d, k) == \E i \in 1..Len(d) : d[i][1] = k
DictGet(d, k) == d[CHOOSE i \in 1..Len(d) : d[i][1] = k][2]
\* d[k] = v: an existing key keeps its place and takes the new value.
DictSet(d, k, v) ==
    IF DictHas(d, k)
    THEN [i \in 1..Len(d) |-> IF d[i][1] = k THEN <<k, v>> ELSE d[i]]
    ELSE Append(d, <<k, v>>)

\* ------------------------------------------------------ the readers' input
\* One element of a blocks file (a <block> with the <value>, <statement> or
\* <next> element that holds it) or of a form's $Components, in document
\* order; par is the index of the enclosing element, 0 at the top level.
BlockElem(par, conn, slot, type, id, disabled, screen, fields) ==
    [kind |-> "block", par |-> par, conn |-> conn, slot |-> slot, type |-> type,
     id |-> id, disabled |-> disabled, screen |-> screen, fields |-> fields,
     container |-> FALSE]

\* container: the description has a '$Components' entry
CompElem(par, type, id, container, screen) ==
    [kind |-> "comp", par |-> par, conn |-> "json", slot |-> <<"json", 0>>,
     type |-> type, id |-> id, disabled |-> FALSE, screen |-> screen,
     fields |-> <<>>, container |-> container]

ChildElems(doc, i) ==
    LET idx == {j \in 1..Len(doc) : doc[j].par = i}
        RECURSIVE Asc(_)
        Asc(S) == IF S = {} THEN <<>>
                  ELSE LET m == CHOOSE x \in S : \A y \in S : x <= y
                       IN <<m>> \o Asc(S \ {m})
    IN Asc(idx)

\* ------------------------------------------------------------- Block model
\* Block.__init__
NewBlock(id, type) ==
    [cls |-> "Block", id |-> id, type |-> type, parent |-> None,
     logical_parent |-> None, values |-> <<>>, statements |-> <<>>,
     next |-> None, disabled |-> FALSE, logically_disabled |-> FALSE,
     screen |-> 0, fields |-> <<>>, children |-> <<>>]

\* Component.__init__ / ComponentContainer.__init__
NewComponent(cls, parent, uuid, type, screen) ==
    [cls |-> cls, id |-> uuid, type |-> type, parent |-> parent,
     logical_parent |-> None, values |-> <<>>, statements |-> <<>>,
     next |-> None, disabled |-> FALSE, logically_disabled |-> FALSE,
     screen |-> screen, fields |-> <<>>, children |-> <<>>]

Unbuilt == [NewBlock(0, "") EXCEPT !.cls = "unbuilt"]

\* The list a new block is appended to: sib = <<owner, kind, slot>> names the
\* list owner.values[slot] or owner.statements[slot]; owner 0 is the fresh
\* list of a top-level call, which nothing else holds.
SiblingsAppend(nodes, sib, b) ==
    IF sib[1] = 0 THEN nodes
    ELSE LET o == nodes[sib[1]]
             d == IF sib[2] = "value" THEN o.values ELSE o.statements
             d2 == DictSet(d, sib[3], Append(DictGet(d, sib[3]), b))
         IN IF sib[2] = "value"
            THEN [nodes EXCEPT ![sib[1]].values = d2]
            ELSE [nodes EXCEPT ![sib[1]].statements = d2]

\* `block.logically_disabled = block.disabled or parent.logically_disabled`,
\* run for the connection types that take it.
InheritsDisabled(connection_type) == connection_type \in {"value", "statement"}

RECURSIVE FromXml(_, _, _, _, _, _)
RECURSIVE FromXmlChildren(_, _, _, _, _)

\* Block.from_xml(screen, xml, lang_ver, siblings, parent, connection_type):
\* st is the heap of nodes and the screens' _blocks as the call finds them.
FromXml(st, doc, i, sib, parent, connection_type) ==
    LET e == doc[i]
        b0 == [NewBlock(e.id, e.type) EXCEPT
                  !.screen = e.screen, !.parent = parent,
                  !.logical_parent = parent, !.fields = e.fields,
                  !.disabled = e.disabled, !.logically_disabled = e.disabled]
        b1 == IF InheritsDisabled(connection_type)
              THEN [b0 EXCEPT !.logically_disabled =
                       b0.disabled \/ st.nodes[parent].logically_disabled]
              ELSE b0
        n1 == SiblingsAppend([st.nodes EXCEPT ![i] = b1], sib, i)
        st1 == [nodes |-> n1,
                blocks |-> [st.blocks EXCEPT ![e.screen] = DictSet(@, e.id, i)]]
    IN FromXmlChildren(st1, doc, i, ChildElems(doc, i), sib)

\* `for child in xml:` of from_xml, for the block i being built
FromXmlChildren(st, doc, i, kids, sib) ==
    IF kids = <<>> THEN st
    ELSE
      LET j == Head(kids)
          name == doc[j].slot
          tag == doc[j].conn
          after ==
            CASE tag = "value" ->
                   LET s0 == [st EXCEPT !.nodes[i].values = DictSet(@, name, <<>>)]
                   IN FromXml(s0, doc, j, <<i, "value", name>>, i, "value")
              [] tag = "statement" ->
                   LET s0 == [st EXCEPT !.nodes[i].statements = DictSet(@, name, <<>>)]
                       s1 == FromXml(s0, doc, j, <<i, "statement", name>>, i, "statement")
                       lst == Range(DictGet(s1.nodes[i].statements, name))
                   IN [s1 EXCEPT !.nodes =
                          [k \in DOMAIN s1.nodes |->
                              IF k \in lst
                              THEN [s1.nodes[k] EXCEPT !.logical_parent = i]
                              ELSE s1.nodes[k]]]
              [] tag = "next" ->
                   LET s1 == FromXml(st, doc, j, sib, i, "next")
                   IN [s1 EXCEPT !.nodes[i].next = j]
      IN FromXmlChildren(after, doc, i, Tail(kids), sib)

RECURSIVE FromJson(_, _, _, _)
RECURSIVE FromJsonChildren(_, _, _, _)

\* Component.from_json / ComponentContainer.from_json / DesignerRoot.__init__
FromJson(st, doc, i, parent) ==
    LET e == doc[i]
        cls == IF parent = None THEN "Screen"
               ELSE IF e.container THEN "ComponentContainer" ELSE "Component"
        c == NewComponent(cls, parent, e.id, e.type, e.screen)
        st1 == [st EXCEPT !.nodes[i] = c]
    IN IF cls = "Component" THEN st1
       ELSE FromJsonChildren(st1, doc, i, ChildElems(doc, i))

\* `for component_description in json_repr['$Components']:`
FromJsonChildren(st, doc, i, kids) ==
    IF kids = <<>> THEN st
    ELSE LET j == Head(kids)
             s1 == FromJson(st, doc, j, i)
         IN FromJsonChildren([s1 EXCEPT !.nodes[i].children = Append(@, j)],
                             doc, i, Tail(kids))

RECURSIVE LoadTop(_, _, _)
\* DesignerRoot.__init__: the top-level elements in document order
LoadTop(st, doc, tops) ==
    IF tops = <<>> THEN st
    ELSE LET i == Head(tops)
             s1 == IF doc[i].kind = "block"
                   THEN FromXml(st, doc, i, <<0, "top", 0>>, None, "top")
                   ELSE FromJson(st, doc, i, None)
         IN LoadTop(s1, doc, Tail(tops))

Load(doc) ==
    LoadTop([nodes |-> [i \in 1..Len(doc) |-> Unbuilt],
             blocks |-> [s \in 1..MaxScreens |-> <<>>]],
            doc, ChildElems(doc, 0))

\* --------------------------------------------------- bounded input families
RECURSIVE Anc(_, _)
\* the element i and the elements that enclose it
Anc(doc, i) == IF i = 0 THEN {} ELSE {i} \cup Anc(doc, doc[i].par)

NumKids(doc, p) == Cardinality({j \in 1..Len(doc) : doc[j].par = p})

LastScreen(doc) ==
    IF doc = <<>> THEN 1 ELSE doc[Len(doc)].screen

\* Blocks of one workspace are numbered in document order.
NextId(doc, s) == 1 + Cardinality({j \in 1..Len(doc) : doc[j].screen = s})

SlotName(conn, k) ==
    CASE conn = "value" -> <<"IF", k>>
      [] conn = "statement" -> <<"DO", k>>
      [] OTHER -> <<"NEXT", k>>

\* The documents that extend doc by one block, in document order.  A block
\* has at most one <next>, and a block plugged into a value input has none.
BlockExtensions(doc, flags, type, screens) ==
    { Append(doc, BlockElem(0, "top", <<"TOP", 0>>, type, NextId(doc, s), d, s, <<>>)) :
          s \in LastScreen(doc)..screens, d \in flags }
    \cup
    UNION { { Append(doc, BlockElem(p, c, SlotName(c, NumKids(doc, p)), type,
                                    NextId(doc, doc[p].screen), d, doc[p].screen, <<>>)) :
                d \in flags } :
            <<p, c>> \in { pc \in Anc(doc, Len(doc)) \X {"value", "statement", "next"} :
                             pc[2] = "next" =>
                               /\ doc[pc[1]].conn # "value"
                               /\ ~\E j \in 1..Len(doc) :
                                     doc[j].par = pc[1] /\ doc[j].conn = "next" } }

RECURSIVE BlockDocsN(_, _, _, _)
BlockDocsN(k, flags, type, screens) ==
    IF k = 0 THEN {<<>>}
    ELSE UNION {BlockExtensions(d, flags, type, screens) :
                  d \in BlockDocsN(k - 1, flags, type, screens)}

\* the blocks files of at most MaxBlocks blocks over the given workspaces
BlockDocs(flags, type, screens) ==
    UNION {BlockDocsN(k, flags, type, screens) : k \in 1..MaxBlocks}

\* A form: the screen and the components below it.  A component that holds
\* others is described as a container.
CompExtensions(doc) ==
    IF doc = <<>> THEN {<<CompElem(0, "Form", 1, TRUE, 1)>>}
    ELSE { Append([doc EXCEPT ![p].container = TRUE,
                              ![p].type = IF p = 1 THEN "Form" ELSE "HorizontalArrangement"],
                  CompElem(p, "Button", Len(doc) + 1, FALSE, 1)) :
           p \in Anc(doc, Len(doc)) }

RECURSIVE CompDocsN(_)
CompDocsN(k) ==
    IF k = 0 THEN {<<>>}
    ELSE UNION {CompExtensions(d) : d \in CompDocsN(k - 1)}

CompDocs == UNION {CompDocsN(k) : k \in 1..MaxComps}

\* Procedure blocks: a definition keeps its name in the field NAME, a call
\* the name it calls in the field PROCNAME.
ProcTypes ==
    <<"procedures_defnoreturn", "procedures_defreturn",
      "procedures_callnoreturn", "procedures_callreturn">>
ProcNames == <<"Bar", "Foo">>

ProcElem(t, nm, id, screen) ==
    BlockElem(0, "top", <<"TOP", 0>>, ProcTypes[t], id, FALSE, screen,
              <<<<IF t <= 2 THEN "NAME" ELSE "PROCNAME", ProcNames[nm]>>>>)

\* the place of an element in the order the elements of a workspace are
\* listed in
ProcRank(e) ==
    LET t == CHOOSE i \in 1..Len(ProcTypes) : ProcTypes[i] = e.type
        nm == CHOOSE i \in 1..Len(ProcNames) : ProcNames[i] = e.fields[1][2]
    IN (t - 1) * Len(ProcNames) + nm

\* The documents that extend doc by one top-level procedure block.
ProcExtensions(doc, screens) ==
    { Append(doc, ProcElem(t, nm, NextId(doc, s), s)) :
        <<s, t, nm>> \in { x \in (LastScreen(doc)..screens) \X (1..Len(ProcTypes))
                                    \X (1..Len(ProcNames)) :
                             (doc # <<>> /\ x[1] = LastScreen(doc)) =>
                                ProcRank(doc[Len(doc)]) <= (x[2] - 1) * Len(ProcNames) + x[3] } }

RECURSIVE ProcDocsN(_, _)
ProcDocsN(k, screens) ==
    IF k = 0 THEN {<<>>}
    ELSE UNION {ProcExtensions(d, screens) : d \in ProcDocsN(k - 1, screens)}

\* the blocks files of at most MaxProcs procedure blocks
ProcDocs(screens) == UNION {ProcDocsN(k, screens) : k \in 1..MaxProcs}

\* ---------------------------------------------------------- the node model
Nodes == DOMAIN project.nodes
Node(n) == project.nodes[n]
IsBlock(n) == Node(n).cls = "Block"

ChildrenStatementsFirst(n) ==
    IF IsBlock(n)
    THEN Flatten(DictValues(Node(n).statements)) \o Flatten(DictValues(Node(n).values))
    ELSE IF Node(n).cls = "Component" THEN <<>>
    ELSE Node(n).children

\* Block.children / Component.children / ComponentContainer.children
Children(n) ==
    IF IsBlock(n)
    THEN Flatten(DictValues(Node(n).values)) \o Flatten(DictValues(Node(n).statements))
    ELSE IF Node(n).cls = "Component" THEN <<>>
    ELSE Node(n).children

\* Block.__hash__ is hash(id) * 31 + hash(type): the same for two blocks of
\* one id and type.  A component keeps object.__hash__.
PyHash(n) ==
    IF IsBlock(n) THEN <<"block", Node(n).id, Node(n).type>> ELSE <<"object", n, "">>

KeyEqByValue(a, b) == PyHash(a) = PyHash(b)
\* Neither Block nor Component defines __eq__: dict keys compare by identity.
KeyEq(a, b) == a = b

\* `key in d` and `d[key]` of a dict keyed by nodes
NodeDictFind(d, n) ==
    {i \in 1..Len(d) : PyHash(d[i][1]) = PyHash(n) /\ KeyEq(d[i][1], n)}
NodeDictHas(d, n) == NodeDictFind(d, n) # {}
NodeDictGet(d, n) == d[CHOOSE i \in NodeDictFind(d, n) : TRUE][2]
NodeDictSet(d, n, v) ==
    IF NodeDictHas(d, n)
    THEN [i \in 1..Len(d) |-> IF i \in NodeDictFind(d, n) THEN <<d[i][1], v>> ELSE d[i]]
    ELSE Append(d, <<n, v>>)

RECURSIVE HeightCall(_, _)
RECURSIVE HeightOfEach(_, _, _)

\* HeightAttribute.__call__ on the cache as found: the cache it leaves and
\* the value it returns.
HeightCall(cache, n) ==
    IF NodeDictHas(cache, n)
    THEN [cache |-> cache, value |-> NodeDictGet(cache, n)]
    ELSE LET r == HeightOfEach(cache, Children(n), <<>>)
             height == IF r.values = <<>> THEN 0 ELSE SeqMax(r.values) + 1
         IN [cache |-> NodeDictSet(r.cache, n, height), value |-> height]

\* `self(x) for x in block_or_component.children()`
HeightOfEach(cache, kids, acc) ==
    IF kids = <<>> THEN [cache |-> cache, values |-> acc]
    ELSE LET r == HeightCall(cache, Head(kids))
         IN HeightOfEach(r.cache, Tail(kids), Append(acc, r.value))

DepthGetParentPhysical(n) == Node(n).parent
\* DepthAttribute._get_parent
DepthGetParent(n) ==
    IF IsBlock(n) THEN Node(n).logical_parent ELSE Node(n).parent

RECURSIVE DepthLoop(_, _)
\* the while loop of DepthAttribute.__call__
DepthLoop(block_or_component, depth) ==
    IF block_or_component = None THEN depth
    ELSE DepthLoop(DepthGetParent(block_or_component), depth + 1)

\* DepthAttribute.__call__
DepthCall(n) == DepthLoop(DepthGetParent(n), 0)

\* ------------------------------------------------------------- traversals
\* The test handed to descendants: none, or a callable given by the set of
\* nodes it is truthy for.
NoTest == <<"none", {}>>
FnTest(S) == <<"fn", S>>
TestPasses(test, n) == n \in test[2]

IterPrunesAlways(skip, failed) == failed
\* `if self.skip and failed: continue`
IterPrunes(skip, failed) == skip /\ failed

IterPushBack(order, item, stack) == stack \o Children(item)
\* the stack after the children of item are added: at the back for
\* 'breadth', at the front (but for item itself) for 'depth'
IterPush(order, item, stack) ==
    IF order = "breadth" THEN stack \o Children(item)
    ELSE SelectSeq(Children(item), LAMBDA child : child # item) \o stack

RECURSIVE IterLoop(_, _, _, _, _)
\* RecursiveIterator.__iter__ from the stack as it stands: the items yielded
\* and the number of passes of the while loop
IterLoop(stack, order, test, skip, acc) ==
    IF Len(stack) = 0 THEN acc
    ELSE LET item == Head(stack)
             failed == test # NoTest /\ ~TestPasses(test, item)
             acc1 == [acc EXCEPT !.steps = @ + 1]
         IN IF IterPrunes(skip, failed)
            THEN IterLoop(Tail(stack), order, test, skip, acc1)
            ELSE IterLoop(IterPush(order, item, Tail(stack)), order, test, skip,
                          IF failed THEN acc1
                          ELSE [acc1 EXCEPT !.items = Append(@, item)])

\* RecursiveIterator(container, order, test, skip)
RecursiveIterator(container, order, test, skip) ==
    IterLoop(<<container>>, order, test, skip, [items |-> <<>>, steps |-> 0])

\* order_type of Selectors.descendants
OrderType(order, m) ==
    IF order # "natural" THEN order
    ELSE IF IsBlock(m) THEN "depth" ELSE "breadth"

RECURSIVE DescendantsInto(_, _, _)
\* `{obj.id: obj if not test or test(obj) else None for obj in ...}`
DescendantsInto(d, objs, test) ==
    IF objs = <<>> THEN d
    ELSE LET obj == Head(objs)
             v == IF test = NoTest \/ TestPasses(test, obj) THEN PyNode(obj) ELSE PyNone
         IN DescendantsInto(DictSet(d, Node(obj).id, v), Tail(objs), test)

RECURSIVE DescendantsFrom(_, _, _, _, _)
\* Selectors.descendants over the matches of a selection of nodes
DescendantsFrom(d, matches, test, order, skip) ==
    IF matches = <<>> THEN d
    ELSE LET match == Head(matches)[2]
             it == RecursiveIterator(match, OrderType(order, match), test, skip)
         IN DescendantsFrom(DescendantsInto(d, it.items, test),
                            Tail(matches), test, order, skip)

\* the Selector that holds the single node n
Single(n) == <<<<Node(n).id, n>>>>

RECURSIVE SubtreeSet(_)
\* n and every node reachable from it through children()
SubtreeSet(n) == {n} \cup UNION {SubtreeSet(Children(n)[i]) : i \in 1..Len(Children(n))}

\* ------------------------------------------------------------ expressions
\* Objects of the expression algebra live in heap; a reference is an index.
\* cls is the class of the object ("function" is a plain Python callable,
\* "bool" a plain value), expr the operand of a NotExpression and functor the
\* callable of a ComputedAttribute.
PyRef(r) == <<"ref", r>>
Obj(cls, expr, functor) == [cls |-> cls, expr |-> expr, functor |-> functor]
IsExpression(h, x) == h[x].cls \in {"NamedAttribute", "ComputedAttribute", "NotExpression"}
IsCallable(h, x) == h[x].cls # "bool"

\* ComputedAttribute.__init__
ComputedAttributeInit(h, functor) ==
    [heap |-> Append(h, Obj("ComputedAttribute", None, functor)), ref |-> Len(h) + 1]

\* NotExpression.__init__: a callable that is no Expression is wrapped
NotExpressionInit(h, expr) ==
    LET w == IF IsCallable(h, expr) /\ ~IsExpression(h, expr)
             THEN ComputedAttributeInit(h, expr)
             ELSE [heap |-> h, ref |-> expr]
    IN [heap |-> Append(w.heap, Obj("NotExpression", w.ref, None)),
        ref |-> Len(w.heap) + 1]

\* Expression.__invert__
ExpressionInvert(h, e) == NotExpressionInit(h, e)

NotExpressionInvertWrap(h, e) == NotExpressionInit(h, e)
\* NotExpression.__invert__
NotExpressionInvert(h, e) == [heap |-> h, ref |-> h[e].expr]

\* `~e` for an Expression e
InvertOp(h, e) ==
    IF h[e].cls = "NotExpression" THEN NotExpressionInvert(h, e)
    ELSE ExpressionInvert(h, e)

\* -------------------------------------------------------------- selections
\* A selection is the dict of a Selector: pairs <<key, node>> in insertion
\* order.
RECURSIVE ById(_, _, _)
\* `{v.id: v for v in items if functor(v)}`
ById(d, items, functor) ==
    IF items = <<>> THEN d
    ELSE LET v == Head(items)
         IN ById(IF functor = NoTest \/ TestPasses(functor, v)
                 THEN DictSet(d, Node(v).id, v) ELSE d,
                 Tail(items), functor)

\* ComponentContainer._components: the container and what lies below it
ContainerComponents(c) ==
    ById(<<>>, RecursiveIterator(c, "breadth", NoTest, TRUE).items, NoTest)

\* UnionSelector.__iter__ over the screens of the project
UnionSelectorIter(field) ==
    IF field = "blocks"
    THEN Flatten([s \in 1..Len(project.blocks) |-> DictValues(project.blocks[s])])
    ELSE Flatten([n \in 1..Len(project.nodes) |->
                     IF Node(n).cls = "Screen"
                     THEN DictValues(ContainerComponents(n)) ELSE <<>>])

\* UnionSelector.__call__
UnionSelectorCall(field, functor) == ById(<<>>, UnionSelectorIter(field), functor)

\* Selector.__call__: `subset[item.id] = item` for the values that pass
SelectorCall(collection, _filter) == ById(<<>>, DictValues(collection), _filter)

\* NamedAttribute.__call__ for the attributes that hold a node
NamedAttribute(name, n) ==
    IF name = "parent" THEN Node(n).parent ELSE Node(n).logical_parent

RECURSIVE SelectInto(_, _, _)
\* Selectors.select: `{item.id: selector(item) for item in self
\*                     if selector(item) is not None}`
SelectInto(d, items, selector) ==
    IF items = <<>> THEN d
    ELSE LET item == Head(items)
             v == NamedAttribute(selector, item)
         IN SelectInto(IF v # None THEN DictSet(d, Node(item).id, v) ELSE d,
                       Tail(items), selector)

SelectorsSelect(collection, selector) == SelectInto(<<>>, DictValues(collection), selector)

\* -------------------------------------------------------------- aggregates
\* The entities an aggregate iterates are indices into env; env[x] holds
\* what the callables g and h (used to group) and v and w (used as the
\* value function) return for the entity x.
PyTuple(t) == <<"tuple", t>>
Raise(e) == <<"raise", e>>
PyDict(d) == <<"dict", d>>
PyRatio(num, den) == <<"ratio", num, den>>

Functor(f, x) ==
    CASE f = "g" -> env[x].g
      [] f = "h" -> env[x].h
      [] f = "w" -> env[x].w
      [] OTHER -> env[x].v

\* `elif not isinstance(group_by, tuple): group_by = (group_by,)`
AsTuple(group_by) == IF group_by[1] = "tuple" THEN group_by[2] ELSE <<group_by[2]>>

\* `attr = tuple(x(value) for x in group_by)`
AttrOf(group_by, value) == [i \in 1..Len(group_by) |-> Functor(group_by[i], value)]

HasNoneNever(attr) == FALSE
\* `None in attr`
HasNone(attr) == \E i \in 1..Len(attr) : attr[i] = PyNone

\* `if len(attr) == 1: attr = attr[0]`
KeyOf(attr) == IF Len(attr) = 1 THEN attr[1] ELSE PyTuple(attr)

RECURSIVE SeqSum(_)
SeqSum(q) == IF q = <<>> THEN 0 ELSE Head(q) + SeqSum(Tail(q))

\* a + b and a < b on ints and None: None has neither
PyAdd(a, b) ==
    IF a[1] = "raise" THEN a
    ELSE IF a = PyNone \/ b = PyNone THEN Raise("TypeError")
    ELSE PyInt(a[2] + b[2])
PyLess(a, b) ==
    IF a = PyNone \/ b = PyNone THEN Raise("TypeError") ELSE PyBool(a[2] < b[2])

RECURSIVE PySumFrom(_, _)
\* the builtin sum: 0 + q[1] + q[2] + ...
PySumFrom(acc, q) == IF q = <<>> THEN acc ELSE PySumFrom(PyAdd(acc, Head(q)), Tail(q))
PySum(q) == PySumFrom(PyInt(0), q)

RECURSIVE PyExtremeFrom(_, _, _)
\* the builtins max (sign 1) and min (sign -1) of a list that is not empty:
\* the first item, replaced by each later item that is greater (less)
PyExtremeFrom(best, q, sign) ==
    IF q = <<>> \/ best[1] = "raise" THEN best
    ELSE LET c == IF sign = 1 THEN PyLess(best, Head(q)) ELSE PyLess(Head(q), best)
         IN PyExtremeFrom(IF c[1] = "raise" THEN c
                          ELSE IF c = PyBool(TRUE) THEN Head(q) ELSE best,
                          Tail(q), sign)
PyExtreme(q, sign) == PyExtremeFrom(Head(q), Tail(q), sign)

RECURSIVE CountEach(_, _)
\* `for _ in self: result += 1`
CountEach(result, values) ==
    IF values = <<>> THEN result ELSE CountEach(result + 1, Tail(values))

RECURSIVE CountInto(_, _, _)
\* the loop of count with a group_by
CountInto(result, values, group_by) ==
    IF values = <<>> THEN result
    ELSE LET attr == AttrOf(group_by, Head(values))
             k == KeyOf(attr)
         IN CountInto(IF HasNone(attr) THEN result
                      ELSE IF DictHas(result, k) THEN DictSet(result, k, DictGet(result, k) + 1)
                      ELSE DictSet(result, k, 1),
                      Tail(values), group_by)

\* AggregateOperations.count
Count(values, group_by) ==
    IF group_by = PyNone THEN PyInt(CountEach(0, values))
    ELSE PyDict(CountInto(<<>>, values, AsTuple(group_by)))

RECURSIVE AvgInto(_, _, _, _)
\* the loop of avg with a group_by: state[attr] = {'sum': ..., 'count': ...}
AvgInto(state, values, func, group_by) ==
    IF values = <<>> THEN state
    ELSE LET attr == AttrOf(group_by, Head(values))
             k == KeyOf(attr)
             fv == Functor(func, Head(values))
         IN AvgInto(IF HasNone(attr) THEN state
                    ELSE IF DictHas(state, k)
                    THEN DictSet(state, k, [sum |-> PyAdd(DictGet(state, k).sum, fv),
                                            count |-> DictGet(state, k).count + 1])
                    ELSE DictSet(state, k, [sum |-> fv, count |-> 1]),
                    Tail(values), func, group_by)

\* AggregateOperations.avg.  The closing comprehension runs
\* `for k, v in state`, over the keys of state: with any key in state the
\* unpacking of the key, or the subscript v['sum'], raises (as `+=` does
\* before it when a value is None).
Avg(values, func, group_by) ==
    IF group_by = PyNone
    THEN LET total == PySum([i \in 1..Len(values) |-> Functor(func, values[i])])
         IN IF total[1] = "raise" THEN total
            ELSE IF values = <<>> THEN Raise("ZeroDivisionError")
            ELSE PyRatio(total[2], Len(values))
    ELSE LET state == AvgInto(<<>>, values, func, AsTuple(group_by))
         IN IF state = <<>> THEN PyDict(<<>>) ELSE Raise("TypeError")

RECURSIVE ExtremeInto(_, _, _, _, _)
\* the loop of max (sign 1) and of min (sign -1) with a group_by; result is
\* the dict so far, or the error of a comparison
ExtremeInto(result, values, func, group_by, sign) ==
    IF values = <<>> \/ result[1] = "raise" THEN result
    ELSE LET attr == AttrOf(group_by, Head(values))
             k == KeyOf(attr)
             attr_value == Functor(func, Head(values))
             d == result[2]
             c == IF sign = 1 THEN PyLess(DictGet(d, k), attr_value)
                  ELSE PyLess(attr_value, DictGet(d, k))
         IN ExtremeInto(IF HasNone(attr) THEN result
                        ELSE IF ~DictHas(d, k) THEN PyDict(DictSet(d, k, attr_value))
                        ELSE IF c[1] = "raise" THEN c
                        ELSE IF c = PyBool(TRUE) THEN PyDict(DictSet(d, k, attr_value))
                        ELSE result,
                        Tail(values), func, group_by, sign)

\* AggregateOperations.max
AggMax(values, func, group_by) ==
    IF group_by = PyNone
    THEN IF values = <<>> THEN Raise("ValueError")
         ELSE PyExtreme([i \in 1..Len(values) |-> Functor(func, values[i])], 1)
    ELSE ExtremeInto(PyDict(<<>>), values, func, AsTuple(group_by), 1)

\* AggregateOperations.min
AggMin(values, func, group_by) ==
    IF group_by = PyNone
    THEN IF values = <<>> THEN Raise("ValueError")
         ELSE PyExtreme([i \in 1..Len(values) |-> Functor(func, values[i])], -1)
    ELSE ExtremeInto(PyDict(<<>>), values, func, AsTuple(group_by), -1)

\* the group_by arguments tried: none, one callable, a tuple of callables
GroupBys ==
    {PyNone, <<"fn", "g">>, <<"fn", "h">>, PyTuple(<<"g">>), PyTuple(<<"g", "h">>)}

\* ----------------------------------------------------------------- callers
\* `item.type in (procedures_defreturn(), procedures_defnoreturn())`
IsDefinition(item) ==
    Node(item).type \in {"procedures_defreturn", "procedures_defnoreturn"}

\* `block.type in (procedures_callnoreturn(), procedures_callreturn())`
IsCall(block) ==
    Node(block).type \in {"procedures_callnoreturn", "procedures_callreturn"}

\* `block.fields['PROCNAME'] == item.fields['NAME']`
CallsProcedure(block, item) ==
    DictGet(Node(block).fields, "PROCNAME") = DictGet(Node(item).fields, "NAME")

RECURSIVE CallersOfItem(_, _, _, _)
\* `for block in item.screen.blocks if ...`, into the dict keyed by block.id
CallersOfItem(d, blocks, item, _filter) ==
    IF blocks = <<>> THEN d
    ELSE LET block == Head(blocks)
         IN CallersOfItem(IF /\ IsCall(block)
                             /\ CallsProcedure(block, item)
                             /\ (_filter = NoTest \/ TestPasses(_filter, block))
                          THEN DictSet(d, Node(block).id, block) ELSE d,
                          Tail(blocks), item, _filter)

RECURSIVE CallersInto(_, _, _)
\* Selectors.callers over the items of a selection
CallersInto(d, items, _filter) ==
    IF items = <<>> THEN d
    ELSE LET item == Head(items)
         IN CallersInto(IF IsDefinition(item)
                        THEN CallersOfItem(d, DictValues(project.blocks[Node(item).screen]),
                                           item, _filter)
                        ELSE d,
                        Tail(items), _filter)

\* is_called: `not select(x).callers().empty()`
IsCalledAttr(x) == CallersInto(<<>>, DictValues(Single(x)), NoTest) # <<>>

\* ---------------------------------------------------- boolean combinators
\* An operand of a binary expression is an Expression, given by what
\* calling it with the node does (it returns a value or raises), or a plain
\* value that is used as it is.
ExprOperand(outcome) == <<"expr", outcome>>
ConstOperand(value) == <<"const", value>>

PyValues == {PyNone, PyBool(FALSE), PyBool(TRUE), PyInt(0), PyInt(1), PyStr(""), PyStr("a")}

\* Python truth value of a value
Truthy(v) == v \notin {PyNone, PyBool(FALSE), PyInt(0), PyStr("")}

IsRaise(v) == v[1] = "raise"

\* `self.left(operand) if isinstance(self.left, Expression) else self.left`:
\* the value (or the error) and whether the operand was called
OperandVal(o) == [val |-> o[2], called |-> o[1] = "expr"]

\* AndExpression.__call__ / OrExpression.__call__: left_val and right_val
\* are both computed, then combined with `and` / `or`.  trace lists the
\* operands called.
BinaryLogicCall(op, left, right) ==
    LET l == OperandVal(left)
        r == OperandVal(right)
        lt == IF l.called THEN <<"left">> ELSE <<>>
        rt == IF r.called THEN <<"right">> ELSE <<>>
    IN IF IsRaise(l.val) THEN [out |-> l.val, trace |-> lt]
       ELSE IF IsRaise(r.val) THEN [out |-> r.val, trace |-> lt \o rt]
       ELSE [out |-> IF op = "and"
                     THEN (IF Truthy(l.val) THEN r.val ELSE l.val)
                     ELSE (IF Truthy(l.val) THEN l.val ELSE r.val),
             trace |-> lt \o rt]

\* ---------------------------------------------------- calling expressions
\* An expression is a term <<class, ...>>; a plain callable is
\* <<"function", kind, value>>: the identity, or a lambda that returns value
\* whatever it is given.  A node is <<"entity", attrs>>, attrs the dict of
\* the attributes it has.  Operands that are neither are plain values.
AtomClasses ==
    {"Atom", "BlockKind", "BlockType", "BlockCategory", "Method", "Event",
     "Parameter", "ComponentType", "Property", "Collection"}
ComparisonClasses ==
    {"EquivalenceExpression", "NonequivalenceExpression", "LessThanExpression",
     "GreaterThanExpression", "LessThanOrEqualExpression",
     "GreaterThanOrEqualExpression"}
ExpressionClasses ==
    AtomClasses \cup ComparisonClasses
       \cup {"NamedAttribute", "NamedAttributeTuple", "ComputedAttribute",
             "FunctionComposition", "AndExpression", "OrExpression", "NotExpression"}

Identity == <<"function", "identity", PyNone>>
Lambda(v) == <<"function", "const", v>>
Entity(attrs) == <<"entity", attrs>>
Diverges == <<"diverges", 0>>
\* a Python object that is no bool: what an overloaded operator of Expression returns
NonBool == <<"object", 0>>

IsAtomTerm(x) == x[1] \in AtomClasses
IsExprTerm(x) == x[1] \in ExpressionClasses
IsFunction(x) == x[1] = "function"
Stops(v) == v[1] \in {"raise", "diverges"}

\* needs_eval
NeedsEval(x) ==
    IF IsExprTerm(x) THEN ~IsAtomTerm(x)
    ELSE IsFunction(x)

\* the attributes of an object that the names in use can name: those of a
\* node, `name` of a NamedAttribute and of a catalog token
ObjAttrs(obj) ==
    CASE obj[1] = "entity" -> obj[2]
      [] obj[1] \in {"NamedAttribute", "BlockType", "BlockCategory", "Method", "Event",
                     "Parameter", "ComponentType", "Property"} -> <<<<"name", PyStr(obj[2])>>>>
      [] OTHER -> <<>>

\* NamedAttribute.__call__
NamedAttributeCall(name, obj) ==
    IF DictHas(ObjAttrs(obj), name) THEN DictGet(ObjAttrs(obj), name) ELSE PyNone

RECURSIVE NamedAttributeTupleCall(_, _)
\* NamedAttributeTuple.__call__
NamedAttributeTupleCall(names, obj) ==
    IF names = <<>> THEN PyNone
    ELSE IF DictHas(ObjAttrs(obj), Head(names)) THEN DictGet(ObjAttrs(obj), Head(names))
    ELSE NamedAttributeTupleCall(Tail(names), obj)

\* calling a plain function
FunctionCall(f, obj) == IF f[2] = "identity" THEN obj ELSE f[3]

\* ---- Python's comparison operators on the values in use
IsNumeric(v) == v[1] \in {"bool", "int"}
NumOf(v) == IF v[1] = "bool" THEN (IF v[2] THEN 1 ELSE 0) ELSE v[2]
\* the strings in use, in Python's order
StrOrder == <<"", "Button", "a", "name", "text", "type", "version">>
StrRank(s) == CHOOSE i \in 1..Len(StrOrder) : StrOrder[i] = s

\* `atom()`: the call Atom.__eq__ makes to compare an Atom with a str
AtomCallNoOperand(a) ==
    IF a[1] \in {"Atom", "BlockKind", "Property"} THEN Raise("TypeError")
    ELSE IF a[1] = "Collection" THEN Raise("IndexError")
    ELSE PyStr(a[2])

\* a == b
PyEq(a, b) ==
    IF (IsExprTerm(a) /\ ~IsAtomTerm(a)) \/ (IsExprTerm(b) /\ ~IsAtomTerm(b))
    THEN \* NamedAttribute.__eq__ / NamedAttributeTuple.__eq__ / Expression.__eq__
         IF a[1] = b[1] /\ a[1] \in {"NamedAttribute", "NamedAttributeTuple"}
         THEN PyBool(a[2] = b[2]) ELSE NonBool
    ELSE IF IsAtomTerm(a) \/ IsAtomTerm(b)
    THEN \* Atom.__eq__
         LET atom == IF IsAtomTerm(a) THEN a ELSE b
             other == IF IsAtomTerm(a) THEN b ELSE a
         IN IF IsAtomTerm(other) THEN PyBool(other = atom)
            ELSE IF other[1] = "str"
            THEN (IF IsRaise(AtomCallNoOperand(atom)) THEN AtomCallNoOperand(atom)
                  ELSE PyBool(other = AtomCallNoOperand(atom)))
            ELSE PyBool(FALSE)
    ELSE IF IsNumeric(a) /\ IsNumeric(b) THEN PyBool(NumOf(a) = NumOf(b))
    ELSE PyBool(a = b)

\* a != b
PyNe(a, b) ==
    IF (IsExprTerm(a) /\ ~IsAtomTerm(a)) \/ (IsExprTerm(b) /\ ~IsAtomTerm(b))
    THEN NonBool                      \* Expression.__ne__
    ELSE IF IsAtomTerm(a) /\ IsAtomTerm(b) THEN PyBool(a # b)
    ELSE IF IsAtomTerm(a) \/ IsAtomTerm(b)
    THEN Raise("RecursionError")      \* Atom.__ne__: `return other != self`
    ELSE IF IsNumeric(a) /\ IsNumeric(b) THEN PyBool(NumOf(a) # NumOf(b))
    ELSE PyBool(a # b)

\* a < b, a > b, a <= b, a >= b
PyOrder(op, a, b) ==
    IF IsExprTerm(a) \/ IsExprTerm(b) THEN NonBool   \* Expression.__lt__ and the like
    ELSE IF (IsNumeric(a) /\ IsNumeric(b)) \/ (a[1] = "str" /\ b[1] = "str")
    THEN LET x == IF IsNumeric(a) THEN NumOf(a) ELSE StrRank(a[2])
             y == IF IsNumeric(b) THEN NumOf(b) ELSE StrRank(b[2])
         IN PyBool(CASE op = "LessThanExpression" -> x < y
                     [] op = "GreaterThanExpression" -> x > y
                     [] op = "LessThanOrEqualExpression" -> x <= y
                     [] OTHER -> x >= y)
    ELSE Raise("TypeError")

\* the comparison a comparison class makes of its two operand values
CompareRaw(cls, a, b) ==
    CASE cls = "EquivalenceExpression" -> PyEq(a, b)
      [] cls = "NonequivalenceExpression" -> PyNe(a, b)
      [] OTHER -> PyOrder(cls, a, b)

IsTrueLoose(r) == r
\* `(...) is True`
IsTrue(r) == PyBool(r = PyBool(TRUE))

RECURSIVE CallTerm(_, _, _)
RECURSIVE CallAny(_, _, _)
RECURSIVE ReduceExpression(_, _, _)
RECURSIVE ApplyAll(_, _, _)
RECURSIVE ApplyAllBackwards(_, _, _)
RECURSIVE CollectionFilter(_, _, _, _)

\* calling c, an expression or a plain function, with obj
CallAny(c, obj, fuel) ==
    IF IsFunction(c) THEN FunctionCall(c, obj)
    ELSE IF IsExprTerm(c) THEN CallTerm(c, obj, fuel)
    ELSE Raise("TypeError")

\* _reduce_expression: `while isinstance(expr, Expression) and not
\* isinstance(expr, Atom): expr = expr(op)`.  A loop that has not ended
\* after MaxReduce rounds is at a FunctionComposition that returns itself
\* for a deferred operand, and never ends.
ReduceExpression(expr, op, fuel) ==
    IF IsExprTerm(expr) /\ ~IsAtomTerm(expr)
    THEN IF fuel = 0 THEN Diverges
         ELSE ReduceExpression(CallTerm(expr, op, MaxReduce), op, fuel - 1)
    ELSE expr

ApplyAllBackwards(functors, obj, fuel) ==
    IF functors = <<>> \/ Stops(obj) THEN obj
    ELSE ApplyAllBackwards(SubSeq(functors, 1, Len(functors) - 1),
                           CallAny(functors[Len(functors)], obj, fuel), fuel)
\* `for op in self.functors: obj = op(obj)` of FunctionComposition.__call__
ApplyAll(functors, obj, fuel) ==
    IF functors = <<>> \/ Stops(obj) THEN obj
    ELSE ApplyAll(Tail(functors), CallAny(Head(functors), obj, fuel), fuel)

\* `list(filter(args[0], self.collection))` of Collection.__call__
CollectionFilter(items, pred, fuel, acc) ==
    IF items = <<>> THEN <<"Collection", acc>>
    ELSE IF pred # PyNone /\ ~IsFunction(pred) /\ ~IsExprTerm(pred) THEN Raise("TypeError")
    ELSE LET v == IF pred = PyNone THEN Head(items) ELSE CallAny(pred, Head(items), fuel)
         IN IF Stops(v) THEN v
            ELSE CollectionFilter(Tail(items), pred, fuel,
                                  IF Truthy(v) THEN Append(acc, Head(items)) ELSE acc)

AtomCallSelf(e, operand, fuel) == e
\* atom.__call__(operand): Atom.__call__ returns the atom; BlockType,
\* BlockCategory, Method, Event, Parameter and ComponentType return their
\* name; Property looks itself up in the operand's properties; Collection
\* returns a new Collection of the items the operand accepts.
AtomCall(e, operand, fuel) ==
    CASE e[1] \in {"Atom", "BlockKind"} -> e
      [] e[1] = "Property" ->
           IF ~DictHas(ObjAttrs(operand), "properties") THEN Raise("AttributeError")
           ELSE IF ~DictHas(DictGet(ObjAttrs(operand), "properties")[2], e[2])
           THEN Raise("KeyError")
           ELSE DictGet(DictGet(ObjAttrs(operand), "properties")[2], e[2])
      [] e[1] = "Collection" -> CollectionFilter(e[2], operand, fuel, <<>>)
      [] OTHER -> PyStr(e[2])

\* expression.__call__(operand), by the class of the expression
CallTerm(e, operand, fuel) ==
    LET cls == e[1]
        \* `self.left(operand) if isinstance(self.left, Expression) else self.left`
        Side(x) == IF IsExprTerm(x) THEN CallTerm(x, operand, fuel) ELSE x
    IN
    CASE cls = "NamedAttribute" -> NamedAttributeCall(e[2], operand)
      [] cls = "NamedAttributeTuple" -> NamedAttributeTupleCall(e[2], operand)
      [] cls = "ComputedAttribute" ->
           IF NeedsEval(operand)
           THEN <<"FunctionComposition", <<e, operand, Identity>>>>
           ELSE FunctionCall(e[2], operand)
      [] cls = "FunctionComposition" ->
           IF NeedsEval(operand)
           THEN <<"FunctionComposition", <<operand>> \o e[2]>>
           ELSE ApplyAll(e[2], operand, fuel)
      [] cls \in ComparisonClasses ->
           LET lv == IF cls = "EquivalenceExpression"
                     THEN ReduceExpression(e[2], operand, MaxReduce) ELSE Side(e[2])
               rv == IF cls = "EquivalenceExpression"
                     THEN ReduceExpression(e[3], operand, MaxReduce) ELSE Side(e[3])
           IN IF Stops(lv) THEN lv
              ELSE IF Stops(rv) THEN rv
              ELSE IF IsRaise(CompareRaw(cls, lv, rv)) THEN CompareRaw(cls, lv, rv)
              ELSE IsTrue(CompareRaw(cls, lv, rv))
      [] cls \in {"AndExpression", "OrExpression"} ->
           LET lv == Side(e[2])
               rv == Side(e[3])
           IN IF lv = Diverges THEN Diverges
              ELSE IF ~IsRaise(lv) /\ rv = Diverges THEN Diverges
              ELSE BinaryLogicCall(IF cls = "AndExpression" THEN "and" ELSE "or",
                                   IF IsExprTerm(e[2]) THEN ExprOperand(lv) ELSE ConstOperand(lv),
                                   IF IsExprTerm(e[3]) THEN ExprOperand(rv) ELSE ConstOperand(rv)).out
      [] cls = "NotExpression" ->
           IF Stops(Side(e[2])) THEN Side(e[2]) ELSE PyBool(~Truthy(Side(e[2])))
      [] OTHER -> AtomCall(e, operand, fuel)

\* ---- the expressions and operands tried
Leaves ==
    {<<"NamedAttribute", "name">>, <<"NamedAttribute", "version">>,
     <<"NamedAttribute", "type">>,
     <<"NamedAttributeTuple", <<"type", "component_type">>>>,
     <<"ComputedAttribute", Identity>>, <<"ComputedAttribute", Lambda(PyInt(1))>>}
Atoms ==
    {<<"Atom", "a">>, <<"BlockKind", "VALUE">>, <<"BlockType", "text">>,
     <<"BlockCategory", "text">>, <<"Method", "type">>, <<"Event", "type">>,
     <<"Parameter", "name">>, <<"ComponentType", "Button">>, <<"Property", "text">>,
     <<"Collection", <<PyInt(0), PyInt(1)>>>>}
Consts == {PyInt(1), PyStr("a"), PyStr("Button"), <<"BlockType", "text">>}
Terms ==
    Leaves \cup Atoms
      \cup {<<c, l, r>> : c \in ComparisonClasses \cup {"AndExpression", "OrExpression"},
                          l \in Leaves, r \in Leaves \cup Consts}
      \cup {<<"NotExpression", l>> : l \in Leaves}
      \cup {<<"FunctionComposition", <<a, b, Identity>>>> : a, b \in Leaves}
CallEntities ==
    {Entity(<<<<"name", PyStr("a")>>, <<"version", PyInt(1)>>,
              <<"type", <<"ComponentType", "Button">>>>,
              <<"properties", PyDict(<<<<"text", PyStr("a")>>>>)>>>>),
     Entity(<<<<"version", PyInt(0)>>, <<"type", PyStr("text")>>>>),
     Entity(<<>>)}
Operands ==
    CallEntities \cup Leaves \cup {Identity, Lambda(PyInt(1)), PyNone, <<"BlockType", "text">>}

\* -------------------------------------------------------- interned helpers
\* A helper object is [cls, child], child a name or None; heap holds the helpers made so far, the
\* first two being the module's `mutation` and `fields`.  env[1] and env[2]
\* are _MutationHelper._interned and _FieldHelper._interned, dicts from a
\* name to the helper interned for it.
Helper(cls, child) == [cls |-> cls, child |-> child]
InternedOf(cls) == IF cls = "_MutationHelper" THEN env[1] ELSE env[2]

\* the names looked up on a helper
HelperNames == {"component_type", "method_name", "NAME", "child"}

\* the nodes a helper is evaluated on: a component (no mutation, no
\* fields), a block without mutation, blocks with maps
HelperNodes ==
    {Entity(<<>>),
     Entity(<<<<"mutation", PyNone>>, <<"fields", PyDict(<<>>)>>>>),
     Entity(<<<<"mutation", PyDict(<<<<"component_type", PyStr("Button")>>>>)>>,
              <<"fields", PyDict(<<<<"NAME", PyStr("a")>>>>)>>>>),
     Entity(<<<<"mutation", PyDict(<<<<"child", PyStr("a")>>,
                                      <<"method_name", PyStr("text")>>>>)>>,
              <<"fields", PyDict(<<<<"child", PyStr("a")>>>>)>>>>)}

\* `helper.item`: an attribute the object has is returned as it is (the
\* instance attribute child); __getattr__ runs for the other names and
\* interns a helper of the same class for the name.
HelperGetAttr(h, interned, ref, item) ==
    IF item = "child"
    THEN [heap |-> h, interned |-> interned,
          out |-> h[ref].child]
    ELSE IF DictHas(interned, item)
    THEN [heap |-> h, interned |-> interned, out |-> PyRef(DictGet(interned, item))]
    ELSE [heap |-> Append(h, Helper(h[ref].cls, PyStr(item))),
          interned |-> DictSet(interned, item, Len(h) + 1),
          out |-> PyRef(Len(h) + 1)]

\* _MutationHelper.__call__ / _FieldHelper.__call__
HelperCall(helper, node) ==
    LET attr == IF helper.cls = "_MutationHelper" THEN "mutation" ELSE "fields"
    IN IF ~DictHas(ObjAttrs(node), attr) THEN PyNone
       ELSE LET map == DictGet(ObjAttrs(node), attr)
            IN IF map = PyNone THEN PyNone
               ELSE IF helper.child = PyNone THEN map
               ELSE IF DictHas(map[2], helper.child[2])
               THEN DictGet(map[2], helper.child[2])
               ELSE PyNone

\* ------------------------------------------------- computed block properties
\* A block as its computed properties see it: its type and its mutation
\* (None or a dict).
TypedBlock(type, mutation) == <<"block", type, mutation>>
Kind(k) == <<"BlockKind", k>>

\* the block types of block_types in use, with their catalog kind
BlockTypeCatalog ==
    <<<<"controls_if", Kind("STATEMENT")>>, <<"math_number", Kind("VALUE")>>,
      <<"component_event", Kind("DECLARATION")>>,
      <<"component_method", Kind("MUTATION")>>,
      <<"component_set_get", Kind("MUTATION")>>>>

\* the component types of component_types in use: the methods of each with
\* their return type
ComponentTypeCatalog ==
    <<<<"Button", <<>>>>,
      <<"TinyDB", <<<<"GetValue", PyStr("any")>>, <<"StoreValue", PyNone>>>>>>>>

\* d[key] for a mutation d
Subscript(d, key) ==
    IF d = PyNone THEN Raise("TypeError")
    ELSE IF DictHas(d[2], key) THEN DictGet(d[2], key)
    ELSE Raise("KeyError")

\* Block.return_type
BlockReturnType(b) ==
    IF b[2] = "component_method"
    THEN LET ct == Subscript(b[3], "component_type")
         IN IF IsRaise(ct) THEN ct
            ELSE IF ~DictHas(ComponentTypeCatalog, ct[2]) THEN Raise("AttributeError")
            ELSE LET mn == Subscript(b[3], "method_name")
                     methods == DictGet(ComponentTypeCatalog, ct[2])
                 IN IF IsRaise(mn) THEN mn
                    ELSE IF ~DictHas(methods, mn[2]) THEN Raise("KeyError")
                    ELSE DictGet(methods, mn[2])
    ELSE PyNone

\* the kind of the catalog, whatever it is
BlockKindStatic(b) ==
    IF ~DictHas(BlockTypeCatalog, b[2]) THEN Raise("AttributeError")
    ELSE DictGet(BlockTypeCatalog, b[2])

\* Block.kind
BlockKind(b) ==
    IF ~DictHas(BlockTypeCatalog, b[2]) THEN Raise("AttributeError")
    ELSE IF DictGet(BlockTypeCatalog, b[2]) = Kind("MUTATION")
    THEN IF b[2] = "component_set_get"
         THEN LET sg == Subscript(b[3], "set_or_get")
              IN IF IsRaise(sg) THEN sg
                 ELSE IF sg = PyStr("get") THEN Kind("VALUE") ELSE Kind("STATEMENT")
         ELSE IF b[2] = "component_method"
         THEN LET rt == BlockReturnType(b)
              IN IF IsRaise(rt) THEN rt
                 ELSE IF rt # PyNone THEN Kind("VALUE") ELSE Kind("STATEMENT")
         ELSE Raise("ValueError")
    ELSE DictGet(BlockTypeCatalog, b[2])

\* Block._get_is_generic: `mutation and 'is_generic' in mutation and ...`
BlockGeneric(b) ==
    IF b[3] = PyNone \/ b[3] = PyDict(<<>>) THEN b[3]
    ELSE IF ~DictHas(b[3][2], "is_generic") THEN PyBool(FALSE)
    ELSE PyBool(DictGet(b[3][2], "is_generic") = PyStr("true"))

\* getattr(obj, name)
PyGetAttr(obj, name) ==
    IF obj[1] = "block"
    THEN CASE name = "type" -> PyStr(obj[2])
           [] name = "mutation" -> obj[3]
           [] name = "kind" -> BlockKind(obj)
           [] name = "return_type" -> BlockReturnType(obj)
           [] name = "generic" -> BlockGeneric(obj)
           [] OTHER -> Raise("AttributeError")
    ELSE IF DictHas(ObjAttrs(obj), name) THEN DictGet(ObjAttrs(obj), name)
    ELSE Raise("AttributeError")

RECURSIVE AttributeCall(_, _)
\* NamedAttribute.__call__ (one name) and NamedAttributeTuple.__call__ on a
\* node: hasattr is false on AttributeError and lets any other error pass
AttributeCall(names, obj) ==
    IF names = <<>> THEN PyNone
    ELSE LET v == PyGetAttr(obj, Head(names))
         IN IF v = Raise("AttributeError") THEN AttributeCall(Tail(names), obj)
            ELSE v

\* the mutations, types and nodes in use
Mutations ==
    {PyNone, PyDict(<<>>),
     PyDict(<<<<"component_type", PyStr("Button")>>, <<"set_or_get", PyStr("get")>>,
              <<"is_generic", PyStr("false")>>>>),
     PyDict(<<<<"component_type", PyStr("Button")>>, <<"set_or_get", PyStr("set")>>,
              <<"is_generic", PyStr("true")>>>>),
     PyDict(<<<<"component_type", PyStr("TinyDB")>>, <<"method_name", PyStr("GetValue")>>>>),
     PyDict(<<<<"component_type", PyStr("TinyDB")>>, <<"method_name", PyStr("StoreValue")>>>>),
     PyDict(<<<<"component_type", PyStr("TinyDB")>>, <<"method_name", PyStr("Later")>>>>),
     PyDict(<<<<"component_type", PyStr("Ext")>>, <<"method_name", PyStr("GetValue")>>>>)}
BlockTypeNames == Range(DictKeys(BlockTypeCatalog)) \cup {"helpers_dropdown"}
TypedBlocks == {TypedBlock(t, mu) : t \in BlockTypeNames, mu \in Mutations}
AttributeNames == {"kind", "return_type", "generic", "type", "name"}
AttributeTuples ==
    {<<a>> : a \in AttributeNames} \cup {<<a, b>> : a, b \in AttributeNames}

\* ------------------------------------------------------------ map and select
RECURSIVE MapInto(_, _, _)
\* Selectors.map: `[functor(x) for x in self if functor(x) is not None]`
MapInto(out, values, functor) ==
    IF values = <<>> THEN out
    ELSE MapInto(IF Functor(functor, Head(values)) # PyNone
                 THEN Append(out, Functor(functor, Head(values))) ELSE out,
                 Tail(values), functor)
SelectorsMap(collection, functor) == MapInto(<<>>, DictValues(collection), functor)

RECURSIVE SelectEach(_, _, _)
\* Selectors.select over the entities of env, whose id is their index
SelectEach(d, items, selector) ==
    IF items = <<>> THEN d
    ELSE SelectEach(IF Functor(selector, Head(items)) # PyNone
                    THEN DictSet(d, Head(items), Functor(selector, Head(items))) ELSE d,
                    Tail(items), selector)

\* ------------------------------------------------------------------- misuse
\* Selectors.callees and Selectors.branch: the body is `pass`
SelectorsCallees(collection) == PyNone
SelectorsBranch(collection, branch_id) == PyNone

\* Selector.__setitem__: raises before it touches _collection
SelectorSetItem(collection, key, value) ==
    [collection |-> collection, out |-> Raise("NotImplementedError")]

\* ------------------------------------------------ has_ancestor, has_descendant
\* A target is NoTest (None), FnTest(S) (an expression or callable that is
\* true of the nodes of S) or PyNode(t) (the node t; no node is callable).
TargetMatches(target, b) ==
    CASE target[1] = "none" -> TRUE
      [] target[1] = "fn" -> TestPasses(target, b)
      [] OTHER -> b = target[2]

RECURSIVE CheckAncestorLoop(_, _)
\* `while b is not None: ... b = b.parent`
CheckAncestorLoop(target, b) ==
    IF b = None THEN FALSE
    ELSE IF TargetMatches(target, b) THEN TRUE
    ELSE CheckAncestorLoop(target, Node(b).parent)

CheckAncestorFromSelf(target, b) == CheckAncestorLoop(target, b)
\* has_ancestor(target)(b): checkAncestor
CheckAncestor(target, b) ==
    IF b = None THEN FALSE ELSE CheckAncestorLoop(target, Node(b).parent)

RECURSIVE CheckDescendant(_, _)
RECURSIVE CheckChildren(_, _)
\* `for child in b.children()` of checkDescendant
CheckChildren(target, kids) ==
    IF kids = <<>> THEN FALSE
    ELSE IF TargetMatches(target, Head(kids)) THEN TRUE
    ELSE IF CheckDescendant(target, Head(kids)) THEN TRUE
    ELSE CheckChildren(target, Tail(kids))
\* has_descendant(target)(b): checkDescendant; every node class has children
CheckDescendant(target, b) ==
    IF b = None THEN FALSE ELSE CheckChildren(target, Children(b))


\* --------------------------------------------------------------- root_block
RootBlockSelf(block) == block
RECURSIVE RootBlock(_)
\* _root_block: `while block.logical_parent: block = block.logical_parent`;
\* a block is always true, None is returned as it is
RootBlock(block) ==
    IF block = None THEN block
    ELSE IF Node(block).logical_parent # None THEN RootBlock(Node(block).logical_parent)
    ELSE block

\* ------------------------------------------------------- legacy block types
\* Block._CATEGORIES, as far as the types in use go
Categories == {"component", "controls", "math"}

\* screen.components: ComponentContainer._components collects the screen
\* and its components under item.id, and Selectors.components keeps them
\* under item.id again.  The id of a component is its Uuid, the id of the
\* screen its name.
ScreenComponentKeys(screen) ==
    {screen.components[i].id : i \in 1..Len(screen.components)} \cup {screen.id}

\* `type_parts[0] in screen.components`: Selector.__contains__
InScreenComponents(screen, key) == key \in ScreenComponentKeys(screen)

\* the type from_xml gives a block: type_parts is type.split('_'), second
\* tells whether xml[1] is a <statement name="DO">
FromXmlType(screen, type_parts, lang_ver, second) ==
    IF type_parts[1] \notin Categories /\ lang_ver < 17
    THEN IF InScreenComponents(screen, type_parts[1])
         THEN IF type_parts[2] = "setproperty" THEN PyStr("component_set_get")
              ELSE IF type_parts[2] = "getproperty" THEN PyStr("component_set_get")
              ELSE IF second THEN PyStr("component_event")
              ELSE PyStr("component_method")
         ELSE Raise("RuntimeError")
    ELSE PyStr(type_parts[1] \o "_" \o type_parts[2])

\* the screens and the types tried
LegacyUuids == {"-1", "-2"}
LegacyNames == {"Button1", "Label1"}
LegacyTypes ==
    {<<a, b>> : a \in LegacyNames \cup LegacyUuids \cup {"Screen1", "Canvas1", "controls"},
                b \in {"setproperty", "getproperty", "Click"}}

\* ---------------------------------------------------- NamedCollectionView
\* A functor of a view is <<NoTest>> for None, or a sequence of tests e1..ek
\* (FnTest(S), true of the entities of S), which NamedCollection.__call__ joins with `&` and
\* NamedCollection.__getitem__ with reduce(AndExpression, item).
ViewAccepts(functor, value) ==
    \A i \in 1..Len(functor) : TestPasses(functor[i], value)

\* NamedCollectionView.__iter__: with a functor, a generator over
\* parent.items() that yields the (key, value) pairs it accepts and ends on
\* `raise StopIteration`, which the interpreter turns into RuntimeError when
\* it implements PEP 479 (pep479) and takes as the end otherwise; without a
\* functor, iter(parent.items()).
ViewIter(parent, functor, pep479) ==
    IF functor # <<NoTest>>
    THEN [items |-> [i \in 1..Len(SelectSeq(parent, LAMBDA kv : ViewAccepts(functor, kv[2]))) |->
                        PyTuple(SelectSeq(parent, LAMBDA kv : ViewAccepts(functor, kv[2]))[i])],
          end |-> IF pep479 THEN Raise("RuntimeError") ELSE PyNone]
    ELSE [items |-> [i \in 1..Len(parent) |-> PyTuple(parent[i])], end |-> PyNone]

\* AggregateOperations.count() on the view: one per item, to the end
ViewCount(parent, functor, pep479) ==
    LET it == ViewIter(parent, functor, pep479)
    IN IF it.end # PyNone THEN it.end ELSE PyInt(CountEach(0, it.items))

\* AggregateOperations.empty() on the view: False at the first item
ViewEmpty(parent, functor, pep479) ==
    LET it == ViewIter(parent, functor, pep479)
    IN IF it.items # <<>> THEN PyBool(FALSE)
       ELSE IF it.end # PyNone THEN it.end
       ELSE PyBool(TRUE)

\* the functors tried on the collection held in sel
ViewFunctors ==
    LET tests == {FnTest(S) : S \in SUBSET Range(DictValues(sel))}
    IN {<<NoTest>>} \cup {<<a>> : a \in tests} \cup {<<a, b>> : a, b \in tests}

\* ------------------------------------------------------------- `l == r`
\* l.__eq__(r) for an expression l: NamedAttribute.__eq__ and
\* NamedAttributeTuple.__eq__ compare the names when r is of the same class,
\* Atom.__eq__ compares atoms by identity, hands an expression r its own
\* `r == l`, and compares a str with its name; every other case is
\* Expression.__eq__, which builds EquivalenceExpression(l, r).
ExprEq(l, r) ==
    IF l[1] = r[1] /\ l[1] \in {"NamedAttribute", "NamedAttributeTuple"}
    THEN PyBool(l[2] = r[2])
    ELSE IF IsAtomTerm(l)
    THEN (IF IsExprTerm(r) /\ ~IsAtomTerm(r)
          THEN <<"EquivalenceExpression", r, l>> ELSE PyEq(l, r))
    ELSE <<"EquivalenceExpression", l, r>>

\* `functor(item)` of a selection filter, for the filter `l == r` gave
FilterAccepts(functor, item) ==
    IF IsExprTerm(functor) THEN CallTerm(functor, item, MaxReduce)
    ELSE Raise("TypeError")

\* ----------------------------------------------------------------- actions
NoOp == [op |-> "init", args |-> <<>>, out |-> PyNone]

\* height(n), on the process-wide HeightAttribute
Height(n) ==
    LET r == HeightCall(precomputed, n)
    IN /\ precomputed' = r.cache
       /\ res' = [op |-> "height", args |-> <<n>>, out |-> PyInt(r.value)]
       /\ UNCHANGED <<project, heap, env, sel>>

\* Two forests loaded one after the other (block forests of two workspaces,
\* or a form's components); the height cache is shared by all of them.
InitHeight ==
    /\ \E doc \in BlockDocs({FALSE}, "controls_if", MaxScreens) \cup CompDocs :
          project = Load(doc)
    /\ precomputed = <<>>
    /\ heap = <<>>
    /\ env = <<>>
    /\ sel = <<>>
    /\ res = NoOp

NextHeight == \E n \in Nodes : Height(n)

SpecHeight == InitHeight /\ [][NextHeight]_vars

\* depth(n)
Depth(n) ==
    /\ res' = [op |-> "depth", args |-> <<n>>, out |-> PyInt(DepthCall(n))]
    /\ UNCHANGED <<project, precomputed, heap, env, sel>>

\* logically_disabled(n): NamedAttribute('logically_disabled') on a block
LogicallyDisabled(n) ==
    /\ IsBlock(n)
    /\ res' = [op |-> "logically_disabled", args |-> <<n>>,
               out |-> PyBool(Node(n).logically_disabled)]
    /\ UNCHANGED <<project, precomputed, heap, env, sel>>

\* A blocks file (any block may be disabled) or a form, as the readers
\* build it.
InitForest ==
    /\ \E doc \in BlockDocs(BOOLEAN, "controls_if", 1) \cup CompDocs :
          project = Load(doc)
    /\ precomputed = <<>>
    /\ heap = <<>>
    /\ env = <<>>
    /\ sel = <<>>
    /\ res = NoOp

NextForest ==
    \/ \E n \in Nodes : Depth(n)
    \/ \E n \in Nodes : LogicallyDisabled(n)

SpecForest == InitForest /\ [][NextForest]_vars

\* select(start).descendants(test, order, skip_failures)
Descendants(start, test, order, skip) ==
    /\ res' = [op |-> "descendants", args |-> <<start, test, order, skip>>,
               out |-> DescendantsFrom(<<>>, Single(start), test, order, skip)]
    /\ UNCHANGED <<project, precomputed, heap, env, sel>>

\* A blocks file or a form to walk.
InitWalk ==
    /\ \E doc \in BlockDocs({FALSE}, "controls_if", 1) \cup CompDocs :
          project = Load(doc)
    /\ precomputed = <<>>
    /\ heap = <<>>
    /\ env = <<>>
    /\ sel = <<>>
    /\ res = NoOp

\* A walk leaves the project as it is, so a behaviour holds one walk.
NextWalk ==
    /\ res = NoOp
    /\ \E start \in Nodes, order \in {"natural", "breadth", "depth"}, skip \in BOOLEAN :
        \E test \in {NoTest} \cup {FnTest(S) : S \in SUBSET SubtreeSet(start)} :
            Descendants(start, test, order, skip)

SpecWalk == InitWalk /\ [][NextWalk]_vars

\* not_(x)
Not(x) ==
    /\ Len(heap) + 2 <= MaxHeap
    /\ LET r == NotExpressionInit(heap, x)
       IN /\ heap' = r.heap
          /\ res' = [op |-> "not", args |-> <<x>>, out |-> PyRef(r.ref)]
    /\ UNCHANGED <<project, precomputed, env, sel>>

\* ~e
Invert(e) ==
    /\ IsExpression(heap, e)
    /\ Len(heap) + 1 <= MaxHeap
    /\ LET r == InvertOp(heap, e)
       IN /\ heap' = r.heap
          /\ res' = [op |-> "invert", args |-> <<e>>, out |-> PyRef(r.ref)]
    /\ UNCHANGED <<project, precomputed, env, sel>>

\* ~not_(x)
NotNot(x) ==
    /\ Len(heap) + 2 <= MaxHeap
    /\ LET n == NotExpressionInit(heap, x)
           r == InvertOp(n.heap, n.ref)
       IN /\ heap' = r.heap
          /\ res' = [op |-> "notnot", args |-> <<x>>, out |-> PyRef(r.ref)]
    /\ UNCHANGED <<project, precomputed, env, sel>>

\* A lambda, a library attribute and a plain value to build expressions of.
InitExpr ==
    /\ project = [nodes |-> <<>>, blocks |-> <<>>]
    /\ precomputed = <<>>
    /\ \E base \in [1..3 -> {"function", "NamedAttribute", "bool"}] :
          heap = [i \in 1..3 |-> Obj(base[i], None, None)]
    /\ env = <<>>
    /\ sel = <<>>
    /\ res = NoOp

NextExpr ==
    \E x \in 1..Len(heap) : Not(x) \/ Invert(x) \/ NotNot(x)

SpecExpr == InitExpr /\ [][NextExpr]_vars

\* project.blocks() / project.components()
Entities(field) ==
    /\ sel' = UnionSelectorCall(field, NoTest)
    /\ res' = [op |-> "entities", args |-> <<field>>, out |-> <<"sel", sel'>>]
    /\ UNCHANGED <<project, precomputed, heap, env>>

\* selection(e)
Call(e) ==
    /\ sel' = SelectorCall(sel, e)
    /\ res' = [op |-> "call", args |-> <<sel, e>>, out |-> <<"sel", sel'>>]
    /\ UNCHANGED <<project, precomputed, heap, env>>

\* selection.select(attribute)
Select(selector) ==
    /\ sel' = SelectorsSelect(sel, selector)
    /\ res' = [op |-> "select", args |-> <<sel, selector>>, out |-> <<"sel", sel'>>]
    /\ UNCHANGED <<project, precomputed, heap, env>>

\* A project of one screen, nothing selected yet.
InitSel ==
    /\ \E doc \in UNION {BlockDocsN(k, {FALSE}, "controls_if", 1) \cup CompDocsN(k) :
                            k \in 1..MaxSelNodes} :
          project = Load(doc)
    /\ precomputed = <<>>
    /\ heap = <<>>
    /\ env = <<>>
    /\ sel = <<>>
    /\ res = NoOp

NextSel ==
    \/ \E field \in {"blocks", "components"} : Entities(field)
    \/ \E S \in SUBSET Range(DictValues(sel)) : Call(FnTest(S))
    \/ \E selector \in {"parent", "logical_parent"} : Select(selector)

SpecSel == InitSel /\ [][NextSel]_vars

\* selection.count(group_by)
AggCount(group_by) ==
    /\ res' = [op |-> "count", args |-> <<group_by>>,
               out |-> Count(DictValues(sel), group_by)]
    /\ UNCHANGED <<project, precomputed, heap, env, sel>>

\* selection.avg(v, group_by) / .max(v, group_by) / .min(v, group_by)
AggValue(op, group_by) ==
    /\ res' = [op |-> op, args |-> <<group_by>>,
               out |-> CASE op = "avg" -> Avg(DictValues(sel), "v", group_by)
                         [] op = "max" -> AggMax(DictValues(sel), "v", group_by)
                         [] OTHER -> AggMin(DictValues(sel), "v", group_by)]
    /\ UNCHANGED <<project, precomputed, heap, env, sel>>

\* A selection of at most MaxElems entities and what g, h and v return for
\* each of them.
InitAgg ==
    /\ project = [nodes |-> <<>>, blocks |-> <<>>]
    /\ precomputed = <<>>
    /\ heap = <<>>
    /\ \E n \in 0..MaxElems :
          /\ env \in [1..n -> [g : {PyNone, PyStr("a"), PyStr("b")},
                               h : {PyNone, PyStr("x")},
                               v : {PyInt(1), PyInt(2)}]]
          /\ sel = [i \in 1..n |-> <<i, i>>]
    /\ res = NoOp

\* An aggregate leaves the selection as it is, so a behaviour holds one.
NextAgg ==
    /\ res = NoOp
    /\ \E group_by \in GroupBys :
          \/ AggCount(group_by)
          \/ \E op \in {"avg", "max", "min"} : AggValue(op, group_by)

SpecAgg == InitAgg /\ [][NextAgg]_vars

\* selection.callers(f), for the selection that iterates items
Callers(items, _filter) ==
    /\ res' = [op |-> "callers", args |-> <<items, _filter>>,
               out |-> <<"sel", CallersInto(<<>>, items, _filter)>>]
    /\ UNCHANGED <<project, precomputed, heap, env, sel>>

\* is_called(x)
IsCalled(x) ==
    /\ res' = [op |-> "is_called", args |-> <<x>>, out |-> PyBool(IsCalledAttr(x))]
    /\ UNCHANGED <<project, precomputed, heap, env, sel>>

\* A project of two screens with procedure definitions and calls.
InitCallers ==
    /\ \E doc \in ProcDocs(2) : project = Load(doc)
    /\ precomputed = <<>>
    /\ heap = <<>>
    /\ env = <<>>
    /\ sel = <<>>
    /\ res = NoOp

\* The selections asked are project.blocks and select(d); the filters pass
\* everything, nothing or one block.  A query leaves the project as it is,
\* so a behaviour holds one.
NextCallers ==
    /\ res = NoOp
    /\ \/ \E items \in {UnionSelectorIter("blocks")} \cup {DictValues(Single(d)) : d \in Nodes} :
             \E _filter \in {NoTest, FnTest({})} \cup {FnTest({n}) : n \in Nodes} :
                Callers(items, _filter)
       \/ \E x \in Nodes : IsCalled(x)

SpecCallers == InitCallers /\ [][NextCallers]_vars

\* (left & right)(node) and (left | right)(node)
EvalLogic(op) ==
    /\ LET c == BinaryLogicCall(op, env[1], env[2])
       IN res' = [op |-> op, args |-> <<env[1], env[2], c.trace>>, out |-> c.out]
    /\ UNCHANGED <<project, precomputed, heap, env, sel>>

\* Two operands: expressions that return a value or raise, or plain values.
InitLogic ==
    /\ project = [nodes |-> <<>>, blocks |-> <<>>]
    /\ precomputed = <<>>
    /\ heap = <<>>
    /\ \E l, r \in {ExprOperand(v) : v \in PyValues \cup {Raise("Error")}}
                     \cup {ConstOperand(v) : v \in PyValues} :
          env = <<l, r>>
    /\ sel = <<>>
    /\ res = NoOp

NextLogic == \E op \in {"and", "or"} : EvalLogic(op)

SpecLogic == InitLogic /\ [][NextLogic]_vars

\* expression(operand).  A FunctionComposition called with a deferred
\* operand puts the operand in front of its own functors and returns itself.
CallExpr ==
    LET e == env[1]
        operand == env[2]
        out == CallTerm(e, operand, MaxReduce)
        grows == e[1] = "FunctionComposition" /\ NeedsEval(operand)
    IN /\ grows => Len(e[2]) < MaxFunctors
       /\ res' = [op |-> "call", args |-> <<e, operand>>, out |-> out]
       /\ env' = IF grows THEN <<out, operand>> ELSE env
       /\ UNCHANGED <<project, precomputed, heap, sel>>

\* An expression and the operand it is called with.
InitCall ==
    /\ project = [nodes |-> <<>>, blocks |-> <<>>]
    /\ precomputed = <<>>
    /\ heap = <<>>
    /\ \E e \in Terms, operand \in Operands : env = <<e, operand>>
    /\ sel = <<>>
    /\ res = NoOp

NextCall == CallExpr

SpecCall == InitCall /\ [][NextCall]_vars

\* helper.item, for a helper made so far
GetAttr(ref, item) ==
    LET r == HelperGetAttr(heap, InternedOf(heap[ref].cls), ref, item)
    IN /\ heap' = r.heap
       /\ env' = IF heap[ref].cls = "_MutationHelper"
                 THEN <<r.interned, env[2]>> ELSE <<env[1], r.interned>>
       /\ res' = [op |-> "getattr", args |-> <<ref, item>>, out |-> r.out]
       /\ UNCHANGED <<project, precomputed, sel>>

\* helper(node)
EvalHelper(ref, node) ==
    /\ res' = [op |-> "helper_call", args |-> <<ref, node>>,
               out |-> HelperCall(heap[ref], node)]
    /\ UNCHANGED <<project, precomputed, heap, env, sel>>

\* The module as imported: `mutation` and `fields`, nothing interned.
InitIntern ==
    /\ project = [nodes |-> <<>>, blocks |-> <<>>]
    /\ precomputed = <<>>
    /\ heap = <<Helper("_MutationHelper", PyNone), Helper("_FieldHelper", PyNone)>>
    /\ env = <<<<>>, <<>>>>
    /\ sel = <<>>
    /\ res = NoOp

NextIntern ==
    \E ref \in 1..Len(heap) :
        \/ \E item \in HelperNames : GetAttr(ref, item)
        \/ \E node \in HelperNodes : EvalHelper(ref, node)

SpecIntern == InitIntern /\ [][NextIntern]_vars

\* NamedAttribute(name)(node), NamedAttributeTuple(names)(node)
EvalAttribute(names, node) ==
    /\ res' = [op |-> "attribute", args |-> <<names, node>>,
               out |-> AttributeCall(names, node)]
    /\ UNCHANGED <<project, precomputed, heap, env, sel>>

\* block.kind
GetKind(b) ==
    /\ res' = [op |-> "kind", args |-> <<b>>, out |-> BlockKind(b)]
    /\ UNCHANGED <<project, precomputed, heap, env, sel>>

InitProps ==
    /\ project = [nodes |-> <<>>, blocks |-> <<>>]
    /\ precomputed = <<>>
    /\ heap = <<>>
    /\ env = <<>>
    /\ sel = <<>>
    /\ res = NoOp

\* A property is computed from the block alone, so a behaviour holds one
\* evaluation.
NextProps ==
    /\ res = NoOp
    /\ \/ \E names \in AttributeTuples, node \in TypedBlocks \cup CallEntities :
              EvalAttribute(names, node)
       \/ \E b \in TypedBlocks : GetKind(b)

SpecProps == InitProps /\ [][NextProps]_vars

\* selection.map(functor)
Map(functor) ==
    /\ res' = [op |-> "map", args |-> <<PyNone, functor>>,
               out |-> PyTuple(SelectorsMap(sel, functor))]
    /\ UNCHANGED <<project, precomputed, heap, env, sel>>

\* selection.select(selector)
SelectValues(selector) ==
    /\ res' = [op |-> "select", args |-> <<PyNone, selector>>,
               out |-> PyDict(SelectEach(<<>>, DictValues(sel), selector))]
    /\ UNCHANGED <<project, precomputed, heap, env, sel>>

\* selection.avg(func, group_by) / .max / .min
AggOf(op, func, group_by) ==
    /\ res' = [op |-> op, args |-> <<group_by, func>>,
               out |-> CASE op = "avg" -> Avg(DictValues(sel), func, group_by)
                         [] op = "max" -> AggMax(DictValues(sel), func, group_by)
                         [] OTHER -> AggMin(DictValues(sel), func, group_by)]
    /\ UNCHANGED <<project, precomputed, heap, env, sel>>

\* A selection of at most MaxAbsent entities; g, v and w may return None
\* for an entity, v returns ints and w other values.
InitAbsent ==
    /\ project = [nodes |-> <<>>, blocks |-> <<>>]
    /\ precomputed = <<>>
    /\ heap = <<>>
    /\ \E n \in 0..MaxAbsent :
          /\ env \in [1..n -> [g : {PyNone, PyStr("a")},
                               h : {PyStr("x")},
                               v : {PyNone, PyInt(0), PyInt(1)},
                               w : {PyNone, PyBool(FALSE), PyStr("")}]]
          /\ sel = [i \in 1..n |-> <<i, i>>]
    /\ res = NoOp

\* These leave the selection as it is, so a behaviour holds one of them.
NextAbsent ==
    /\ res = NoOp
    /\ \/ \E op \in {"avg", "max", "min"}, group_by \in {PyNone, <<"fn", "g">>} :
              AggOf(op, "v", group_by)
       \/ \E functor \in {"v", "w"} : Map(functor)
       \/ \E selector \in {"v", "w"} : SelectValues(selector)

SpecAbsent == InitAbsent /\ [][NextAbsent]_vars

\* selection.callees()
Callees ==
    /\ res' = [op |-> "callees", args |-> <<sel>>, out |-> SelectorsCallees(sel)]
    /\ UNCHANGED <<project, precomputed, heap, env, sel>>

\* selection.branch(branch_id)
Branch(branch_id) ==
    /\ res' = [op |-> "branch", args |-> <<sel, branch_id>>,
               out |-> SelectorsBranch(sel, branch_id)]
    /\ UNCHANGED <<project, precomputed, heap, env, sel>>

\* selection[key] = value
SetItem(key, value) ==
    LET r == SelectorSetItem(sel, key, value)
    IN /\ sel' = r.collection
       /\ res' = [op |-> "setitem", args |-> <<sel, key, value>>, out |-> r.out]
       /\ UNCHANGED <<project, precomputed, heap, env>>

NextMisuse ==
    \/ \E field \in {"blocks", "components"} : Entities(field)
    \/ Callees
    \/ \E branch_id \in 0..1 : Branch(branch_id)
    \/ \E key \in 1..MaxSelNodes, value \in Nodes : SetItem(key, value)

SpecMisuse == InitSel /\ [][NextMisuse]_vars

\* has_ancestor(target)(b)
HasAncestor(target, b) ==
    /\ res' = [op |-> "has_ancestor", args |-> <<target, b>>,
               out |-> PyBool(CheckAncestor(target, b))]
    /\ UNCHANGED <<project, precomputed, heap, env, sel>>

\* has_descendant(target)(b)
HasDescendant(target, b) ==
    /\ res' = [op |-> "has_descendant", args |-> <<target, b>>,
               out |-> PyBool(CheckDescendant(target, b))]
    /\ UNCHANGED <<project, precomputed, heap, env, sel>>

\* The tests read the project and leave it as it is, so a behaviour holds
\* one test.
NextKin ==
    /\ res = NoOp
    /\ \E b \in Nodes \cup {None} :
        \E target \in {NoTest} \cup {FnTest(S) : S \in SUBSET Nodes}
                         \cup {PyNode(t) : t \in Nodes} :
            \/ HasAncestor(target, b)
            \/ HasDescendant(target, b)

SpecKin == InitWalk /\ [][NextKin]_vars

\* root_block(b), b a block or None
RootBlockOf(b) ==
    /\ b # None => IsBlock(b)
    /\ res' = [op |-> "root_block", args |-> <<b>>, out |-> PyNode(RootBlock(b))]
    /\ UNCHANGED <<project, precomputed, heap, env, sel>>

\* The lookup leaves the project as it is, so a behaviour holds one.
NextStack ==
    /\ res = NoOp
    /\ \E b \in Nodes \cup {None} : RootBlockOf(b)

SpecStack == InitForest /\ [][NextStack]_vars

\* Block.from_xml(screen, xml, lang_ver) as far as the type of the block
Reclassify(type_parts, lang_ver, second) ==
    /\ res' = [op |-> "from_xml", args |-> <<type_parts, lang_ver, second>>,
               out |-> FromXmlType(env, type_parts, lang_ver, second)]
    /\ UNCHANGED <<project, precomputed, heap, env, sel>>

\* A screen named Screen1 with at most MaxLegacyComps components.
InitLegacy ==
    /\ project = [nodes |-> <<>>, blocks |-> <<>>]
    /\ precomputed = <<>>
    /\ heap = <<>>
    /\ \E n \in 0..MaxLegacyComps :
        \E comps \in [1..n -> [id : LegacyUuids, name : LegacyNames]] :
            env = [id |-> "Screen1", name |-> "Screen1", components |-> comps]
    /\ sel = <<>>
    /\ res = NoOp

NextLegacy ==
    /\ res = NoOp
    /\ \E type_parts \in LegacyTypes, lang_ver \in 16..17, second \in BOOLEAN :
          Reclassify(type_parts, lang_ver, second)

SpecLegacy == InitLegacy /\ [][NextLegacy]_vars

\* list(collection[e]) / list(collection(e))
IterateView(functor, pep479) ==
    /\ res' = [op |-> "view_iter", args |-> <<functor, pep479>>,
               out |-> ViewIter(sel, functor, pep479)]
    /\ UNCHANGED <<project, precomputed, heap, env, sel>>

\* collection[e].count() and collection[e].empty()
AggView(op, functor, pep479) ==
    /\ res' = [op |-> op, args |-> <<functor, pep479>>,
               out |-> IF op = "view_count" THEN ViewCount(sel, functor, pep479)
                       ELSE ViewEmpty(sel, functor, pep479)]
    /\ UNCHANGED <<project, precomputed, heap, env, sel>>

\* A NamedCollection of at most MaxViewElems entities, keyed by id.
InitView ==
    /\ project = [nodes |-> <<>>, blocks |-> <<>>]
    /\ precomputed = <<>>
    /\ heap = <<>>
    /\ env = <<>>
    /\ \E n \in 0..MaxViewElems : sel = [i \in 1..n |-> <<i, i>>]
    /\ res = NoOp

\* A view leaves the collection as it is, so a behaviour holds one use.
NextView ==
    /\ res = NoOp
    /\ \E functor \in ViewFunctors, pep479 \in BOOLEAN :
          \/ IterateView(functor, pep479)
          \/ \E op \in {"view_count", "view_empty"} : AggView(op, functor, pep479)

SpecView == InitView /\ [][NextView]_vars

\* `l == r`, then the result used as the filter of a selection holding n
BuildEq ==
    LET l == env[1]
        r == env[2]
        n == env[3]
    IN /\ res' = [op |-> "eq", args |-> <<l, r, n>>,
                  out |-> <<ExprEq(l, r), FilterAccepts(ExprEq(l, r), n)>>]
       /\ UNCHANGED <<project, precomputed, heap, env, sel>>

\* Two operands, the left one an expression, and a node.
InitBuild ==
    /\ project = [nodes |-> <<>>, blocks |-> <<>>]
    /\ precomputed = <<>>
    /\ heap = <<>>
    /\ \E l \in Leaves, r \in Leaves \cup Consts, n \in CallEntities : env = <<l, r, n>>
    /\ sel = <<>>
    /\ res = NoOp

NextBuild == res = NoOp /\ BuildEq

SpecBuild == InitBuild /\ [][NextBuild]_vars

\* EquivalenceExpression(l, r)(n) and NonequivalenceExpression(l, r)(n)
ComparePair ==
    LET l == env[1]
        r == env[2]
        n == env[3]
    IN /\ res' = [op |-> "compare", args |-> <<l, r, n>>,
                  out |-> <<CallTerm(<<"EquivalenceExpression", l, r>>, n, MaxReduce),
                            CallTerm(<<"NonequivalenceExpression", l, r>>, n, MaxReduce)>>]
       /\ UNCHANGED <<project, precomputed, heap, env, sel>>

\* Two operands, each an expression, a catalog atom or a plain value, and a node.
InitCompare ==
    /\ project = [nodes |-> <<>>, blocks |-> <<>>]
    /\ precomputed = <<>>
    /\ heap = <<>>
    /\ \E l, r \in Leaves \cup Atoms \cup Consts, n \in CallEntities : env = <<l, r, n>>
    /\ sel = <<>>
    /\ res = NoOp

NextCompare == res = NoOp /\ ComparePair

SpecCompare == InitCompare /\ [][NextCompare]_vars

\* has_ancestor(a)(b) and has_descendant(b)(a), for two blocks a and b
KinPair(a, b) ==
    /\ IsBlock(a) /\ IsBlock(b)
    /\ res' = [op |-> "kin_pair", args |-> <<a, b>>,
               out |-> <<PyBool(CheckAncestor(PyNode(a), b)),
                         PyBool(CheckDescendant(PyNode(b), a))>>]
    /\ UNCHANGED <<project, precomputed, heap, env, sel>>

\* The two tests read the project and leave it as it is.
NextKinPair == res = NoOp /\ \E a, b \in Nodes : KinPair(a, b)

SpecKinPair == InitWalk /\ [][NextKinPair]_vars

\* ------------------------------------------------------------------ claims
RECURSIVE HeightDef(_)
\* the unmemoized height: 0 for a leaf, else 1 + the children's maximum
HeightDef(n) ==
    IF Children(n) = <<>> THEN 0
    ELSE 1 + SeqMax([i \in 1..Len(Children(n)) |-> HeightDef(Children(n)[i])])

\* C1: after any sequence of height calls over the loaded forests, every
\* memoized height and every returned height is the unmemoized one: 0 exactly
\* for a node without children, else 1 + the maximum over its children.
C1_HeightIsUnmemoizedDefinition ==
    /\ \A i \in 1..Len(precomputed) :
          precomputed[i][2] = HeightDef(precomputed[i][1])
    /\ res.op = "height" =>
          /\ res.out = PyInt(HeightDef(res.args[1]))
          /\ (res.out = PyInt(0)) <=> (Children(res.args[1]) = <<>>)

\* C1 witness: a height was returned for a block while another block of the
\* same id and type, of another height, was already memoized.
C1_Witness ==
    /\ res.op = "height"
    /\ IsBlock(res.args[1])
    /\ \E i \in 1..Len(precomputed) :
          LET k == precomputed[i][1]
          IN /\ k # res.args[1]
             /\ PyHash(k) = PyHash(res.args[1])
             /\ HeightDef(k) # HeightDef(res.args[1])
             /\ \E j \in 1..Len(precomputed) : i < j /\ precomputed[j][1] = res.args[1]

\* the parent the claim names: logical_parent for a block, parent otherwise
ClaimedParent(n) == IF IsBlock(n) THEN Node(n).logical_parent ELSE Node(n).parent

RECURSIVE ReachesRoot(_, _)
\* following ClaimedParent from n reaches None within k hops
ReachesRoot(n, k) ==
    \/ n = None
    \/ k > 0 /\ ReachesRoot(ClaimedParent(n), k - 1)

\* C2: depth(n) is 0 for a node without (logical) parent and depth(p) + 1
\* otherwise, p being the logical_parent of a block and the parent of a
\* component; the upward walk ends within as many hops as there are nodes.
C2_DepthIsParentDepthPlusOne ==
    /\ \A n \in Nodes : ReachesRoot(n, Cardinality(Nodes))
    /\ res.op = "depth" =>
          LET n == res.args[1]
          IN IF ClaimedParent(n) = None
             THEN res.out = PyInt(0)
             ELSE res.out = PyInt(DepthCall(ClaimedParent(n)) + 1)

\* C2 witness: the depth of a block whose logical parent is not its physical
\* parent (a later block of a statement sequence) was computed.
C2_Witness ==
    /\ res.op = "depth"
    /\ IsBlock(res.args[1])
    /\ Node(res.args[1]).logical_parent # Node(res.args[1]).parent
    /\ res.out = PyInt(1)

\* c lies in a statement input of p: the first block of the slot or a later
\* block of its sequence
InStatementOf(c, p) ==
    IsBlock(p) /\ c \in Range(Flatten(DictValues(Node(p).statements)))

\* C10: a block in a statement input of a logically disabled block is
\* logically disabled, and a disabled block is logically disabled.
C10_StatementChildrenInheritDisabled ==
    \A c \in Nodes : IsBlock(c) =>
        /\ Node(c).disabled => Node(c).logically_disabled
        /\ \A p \in Nodes :
              InStatementOf(c, p) /\ Node(p).logically_disabled
                  => Node(c).logically_disabled

Pos(s, x) == CHOOSE i \in 1..Len(s) : s[i] = x

\* the node whose children() holds n
Holder(n) == CHOOSE m \in Nodes : n \in Range(Children(m))

RECURSIVE Dist(_, _)
\* the number of children() hops from start down to n
Dist(start, n) == IF n = start THEN 0 ELSE 1 + Dist(start, Holder(n))

\* the nodes a walk from start yields, in order
Walk(start, test, order, skip) ==
    DictValues(DescendantsFrom(<<>>, Single(start), test, order, skip))

\* C7: without a test the breadth-first and the depth-first walk from a node
\* end and yield the same nodes, the node's whole subtree, each once; depth
\* first yields a node before its children and a child's whole subtree
\* before the next child; breadth first yields nearer nodes first.
C7_WalkOrders ==
    (res.op = "descendants" /\ res.args[2] = NoTest) =>
        LET start == res.args[1]
            order == OrderType(res.args[3], start)
            out == DictValues(res.out)
            sub == {PyNode(n) : n \in SubtreeSet(start)}
            other == Walk(start, NoTest,
                          IF order = "depth" THEN "breadth" ELSE "depth", res.args[4])
        IN /\ Range(out) = sub
           /\ Len(out) = Cardinality(sub)
           /\ Range(other) = Range(out)
           /\ Len(other) = Len(out)
           /\ RecursiveIterator(start, order, NoTest, res.args[4]).steps
                 = Cardinality(sub)
           /\ order = "depth" =>
                 \A n \in SubtreeSet(start) :
                    \A i \in 1..Len(Children(n)) :
                       /\ Pos(out, PyNode(n)) < Pos(out, PyNode(Children(n)[i]))
                       /\ \A j \in 1..Len(Children(n)) : i < j =>
                             \A x \in SubtreeSet(Children(n)[i]) :
                                Pos(out, PyNode(x)) < Pos(out, PyNode(Children(n)[j]))
           /\ order = "breadth" =>
                 \A x, y \in SubtreeSet(start) :
                    Dist(start, x) < Dist(start, y)
                       => Pos(out, PyNode(x)) < Pos(out, PyNode(y))

\* C7 witness: a depth-first walk whose order differs from the breadth-first
\* order of the same tree.
C7_Witness ==
    /\ res.op = "descendants"
    /\ res.args[2] = NoTest
    /\ res.args[3] = "depth"
    /\ DictValues(res.out) # Walk(res.args[1], NoTest, "breadth", res.args[4])

RECURSIVE PathPasses(_, _, _)
\* n and every node between start and n pass the test
PathPasses(test, start, n) ==
    /\ TestPasses(test, n)
    /\ n # start => PathPasses(test, start, Holder(n))

\* C8: with a test, a pruning walk yields exactly the nodes that pass along
\* their whole path from the start node, a walk that does not prune yields
\* exactly the nodes of the subtree that pass; a failing node is never in
\* the result.
C8_WalkWithTest ==
    (res.op = "descendants" /\ res.args[2] # NoTest) =>
        LET start == res.args[1]
            test == res.args[2]
            out == DictValues(res.out)
            want == IF res.args[4]
                    THEN {n \in SubtreeSet(start) : PathPasses(test, start, n)}
                    ELSE {n \in SubtreeSet(start) : TestPasses(test, n)}
        IN /\ Range(out) = {PyNode(n) : n \in want}
           /\ Len(out) = Cardinality(want)

\* C8 witness: a walk that does not prune yielded a passing node that lies
\* below a failing one.
C8_Witness ==
    /\ res.op = "descendants"
    /\ res.args[2] # NoTest
    /\ ~res.args[4]
    /\ \E n \in SubtreeSet(res.args[1]) :
          /\ n # res.args[1]
          /\ ~TestPasses(res.args[2], Holder(n))
          /\ PyNode(n) \in Range(DictValues(res.out))

\* C3: negating Not(x) returns x itself, the object that was passed in, for
\* an expression x and for a plain callable x alike.
C3_NotNotIsOperand ==
    res.op = "notnot" => res.out = PyRef(res.args[1])

\* C3 (amended): negating Not(x) returns x itself, the operand of the one
\* Not node built, when x is an expression; when x is a plain callable it returns the
\* ComputedAttribute that Not wrapped around x. Negating any Not node
\* returns the operand the node stores and allocates nothing.
C3_NotNotIsStoredOperand ==
    /\ res.op = "notnot" =>
          LET x == res.args[1]
              out == res.out[2]
          IN IF IsExpression(heap, x) \/ ~IsCallable(heap, x)
             THEN /\ out = x
                  /\ heap[Len(heap)] = Obj("NotExpression", x, None)
             ELSE /\ out # x
                  /\ heap[out] = Obj("ComputedAttribute", None, x)
                  /\ heap[Len(heap)] = Obj("NotExpression", out, None)
    /\ (res.op = "invert" /\ heap[res.args[1]].cls = "NotExpression") =>
          /\ res.out = PyRef(heap[res.args[1]].expr)
          /\ res.out[2] < res.args[1]

\* C3 witness: Not of a plain callable was negated.
C3_Witness ==
    /\ res.op = "notnot"
    /\ heap[res.args[1]].cls = "function"
    /\ heap[res.out[2]].cls = "ComputedAttribute"

\* C4: selection(e) holds exactly the entries of the selection whose node
\* makes e truthy, under the same keys and in the same order, and filtering
\* the result by e again changes nothing.
C4_CallKeepsPassingEntries ==
    res.op = "call" =>
        LET src == res.args[1]
            e == res.args[2]
            out == res.out[2]
        IN /\ out = SelectSeq(src, LAMBDA kv : TestPasses(e, kv[2]))
           /\ DictValues(SelectorCall(out, e)) = DictValues(out)

\* the entities of the selection for which every group-by value is there
Grouped(group_by) ==
    {i \in 1..Len(sel) :
        \A j \in 1..Len(AsTuple(group_by)) : Functor(AsTuple(group_by)[j], sel[i][2]) # PyNone}

\* the key of a grouped entity: the value of the one expression, or the
\* tuple of the values of the expressions
GroupKey(group_by, i) ==
    LET t == AsTuple(group_by)
    IN IF Len(t) = 1 THEN Functor(t[1], sel[i][2])
       ELSE PyTuple([j \in 1..Len(t) |-> Functor(t[j], sel[i][2])])

\* C5: count() is the number of elements the selection yields; with a
\* group_by the group counts add up to the number of elements whose group-by
\* values are all there, and the keys are the value (one expression) or the
\* tuple of values (several) of those elements.
C5_CountTotals ==
    res.op = "count" =>
        LET group_by == res.args[1]
        IN IF group_by = PyNone THEN res.out = PyInt(Len(sel))
           ELSE /\ res.out[1] = "dict"
                /\ SeqSum(DictValues(res.out[2])) = Cardinality(Grouped(group_by))
                /\ Range(DictKeys(res.out[2]))
                      = {GroupKey(group_by, i) : i \in Grouped(group_by)}

\* C5 witness: a count grouped by two expressions that left an element out
\* and put two elements in one group.
C5_Witness ==
    /\ res.op = "count"
    /\ res.args[1] = PyTuple(<<"g", "h">>)
    /\ Cardinality(Grouped(res.args[1])) < Len(sel)
    /\ \E k \in Range(DictKeys(res.out[2])) : DictGet(res.out[2], k) = 2

\* the aggregate of the value expression over the entities of the set grp
Aggregate(op, grp) ==
    LET vals == {<<i, env[sel[i][2]].v[2]>> : i \in grp}
    IN CASE op = "count" -> Cardinality(grp)
         [] op = "max" ->
              PyInt(CHOOSE m \in {p[2] : p \in vals} : \A p \in vals : p[2] <= m)
         [] op = "min" ->
              PyInt(CHOOSE m \in {p[2] : p \in vals} : \A p \in vals : p[2] >= m)
         [] OTHER -> PyRatio(SeqSum([i \in 1..Len(sel) |->
                                        IF i \in grp THEN env[sel[i][2]].v[2] ELSE 0]),
                             Cardinality(grp))

\* C6: count, avg, min and max with a group_by, on a selection with an
\* element whose group-by values are all there, return a mapping from the
\* distinct keys of those elements to the aggregate over the group.
C6_GroupedAggregates ==
    (res.op \in {"count", "avg", "min", "max"} /\ res.args[1] # PyNone
        /\ Grouped(res.args[1]) # {}) =>
        LET group_by == res.args[1]
        IN /\ res.out[1] = "dict"
           /\ Range(DictKeys(res.out[2]))
                 = {GroupKey(group_by, i) : i \in Grouped(group_by)}
           /\ \A i \in Grouped(group_by) :
                 DictGet(res.out[2], GroupKey(group_by, i))
                    = Aggregate(res.op, {j \in Grouped(group_by) :
                                            GroupKey(group_by, j) = GroupKey(group_by, i)})

\* the call blocks the selection that iterates items should find
CallersOf(items, _filter) ==
    {c \in Nodes :
        /\ IsCall(c)
        /\ _filter = NoTest \/ TestPasses(_filter, c)
        /\ \E d \in Range(items) :
              /\ IsDefinition(d)
              /\ Node(d).screen = Node(c).screen
              /\ DictGet(Node(c).fields, "PROCNAME") = DictGet(Node(d).fields, "NAME")}

\* C9: callers(f) on a selection returns exactly the call blocks that name a
\* definition of the selection on their own screen and pass f, and
\* is_called(d) tells whether that set is non-empty for the selection of d.
C9_CallersAreTheCallBlocks ==
    /\ res.op = "callers" =>
          Range(DictValues(res.out[2])) = CallersOf(res.args[1], res.args[2])
    /\ res.op = "is_called" =>
          res.out = PyBool(CallersOf(<<res.args[1]>>, NoTest) # {})

\* C11: And(l, r) does not evaluate r when the value of l is falsy, Or(l, r)
\* does not evaluate r when the value of l is truthy, so an error of r is not
\* raised then; the result is the value of the last operand evaluated.
C11_ShortCircuit ==
    (res.op \in {"and", "or"} /\ res.args[1][1] = "expr" /\ res.args[2][1] = "expr"
        /\ ~IsRaise(res.args[1][2])) =>
        LET lv == res.args[1][2]
            decided == IF res.op = "and" THEN ~Truthy(lv) ELSE Truthy(lv)
        IN IF decided
           THEN res.out = lv /\ res.args[3] = <<"left">>
           ELSE res.out = res.args[2][2] /\ res.args[3] = <<"left", "right">>

\* C12: a non-Atom expression called with an operand that needs evaluation
\* returns a composed expression that defers the application, and called
\* with a final operand it returns a final value.
C12_CallDefersOrEvaluates ==
    (res.op = "call" /\ ~IsAtomTerm(res.args[1])) =>
        IF NeedsEval(res.args[2])
        THEN IsExprTerm(res.out) /\ ~IsAtomTerm(res.out)
        ELSE ~NeedsEval(res.out)

C14_ComparisonIsStrictBoolean ==
    (res.op = "call" /\ res.args[1][1] \in ComparisonClasses) =>
        \/ Stops(res.out)
        \/ res.out \in {PyBool(TRUE), PyBool(FALSE)}

\* C14 witness: a comparison on a node whose operand values compare to a
\* non-boolean object returned false.
C14_Witness ==
    /\ res.op = "call"
    /\ res.args[1][1] \in ComparisonClasses \ {"EquivalenceExpression"}
    /\ res.args[2][1] = "entity"
    /\ LET e == res.args[1]
           lv == CallTerm(e[2], res.args[2], MaxReduce)
           rv == IF IsExprTerm(e[3]) THEN CallTerm(e[3], res.args[2], MaxReduce) ELSE e[3]
       IN ~Stops(lv) /\ ~Stops(rv) /\ CompareRaw(e[1], lv, rv) = NonBool
    /\ res.out = PyBool(FALSE)

\* C15: a lookup of a name on mutation or fields returns the accessor of
\* that name, the same instance for the same name and different instances
\* for different names, and the accessor for a name evaluated on a node
\* returns the entry of that name in the node's map, or the absent value.
C15_InternedAccessors ==
    /\ res.op = "getattr" =>
          /\ res.out[1] = "ref"
          /\ heap[res.out[2]] = Helper(heap[res.args[1]].cls, PyStr(res.args[2]))
    /\ \A i, j \in 1..Len(heap) : heap[i] = heap[j] => i = j
    /\ (res.op = "helper_call" /\ heap[res.args[1]].child # PyNone) =>
          LET helper == heap[res.args[1]]
              attr == IF helper.cls = "_MutationHelper" THEN "mutation" ELSE "fields"
              attrs == res.args[2][2]
          IN IF DictHas(attrs, attr) /\ DictGet(attrs, attr) # PyNone
                /\ DictHas(DictGet(attrs, attr)[2], helper.child[2])
             THEN res.out = DictGet(DictGet(attrs, attr)[2], helper.child[2])
             ELSE res.out = PyNone

\* C16: evaluating a NamedAttribute or a NamedAttributeTuple against a node
\* never raises, also for the names a block computes on demand (kind,
\* return_type, generic), whatever the block's type and mutation.
C16_AttributeNeverRaises ==
    res.op = "attribute" => ~IsRaise(res.out)

\* what a mutation says, read as the claims read it
MutationEntry(mu, key) ==
    IF mu # PyNone /\ DictHas(mu[2], key) THEN DictGet(mu[2], key) ELSE PyNone
\* the mutation names a method of the component catalog
NamesMethod(mu) ==
    /\ MutationEntry(mu, "component_type") # PyNone
    /\ MutationEntry(mu, "method_name") # PyNone
    /\ DictHas(ComponentTypeCatalog, MutationEntry(mu, "component_type")[2])
    /\ DictHas(DictGet(ComponentTypeCatalog, MutationEntry(mu, "component_type")[2]),
               MutationEntry(mu, "method_name")[2])
MethodReturns(mu) ==
    /\ NamesMethod(mu)
    /\ DictGet(DictGet(ComponentTypeCatalog, MutationEntry(mu, "component_type")[2]),
               MutationEntry(mu, "method_name")[2]) # PyNone

Present(func) == SelectSeq(DictValues(sel), LAMBDA x : Functor(func, x) # PyNone)

\* C17: in avg, min, max (with or without group_by), map and select an
\* element whose value expression gives None is left out and causes no
\* error: the result is the result over the selection without those
\* elements, and values that are false, zero or empty are kept.
C17_AbsentValuesLeftOut ==
    /\ res.op \in {"avg", "max", "min"} =>
          res.out = (CASE res.op = "avg" -> Avg(Present(res.args[2]), res.args[2], res.args[1])
                       [] res.op = "max" -> AggMax(Present(res.args[2]), res.args[2], res.args[1])
                       [] OTHER -> AggMin(Present(res.args[2]), res.args[2], res.args[1]))
    /\ (res.op = "map" /\ res.args[1] = PyNone) =>
          res.out = PyTuple([i \in 1..Len(Present(res.args[2])) |->
                               Functor(res.args[2], Present(res.args[2])[i])])
    /\ (res.op = "select" /\ res.args[1] = PyNone) =>
          res.out = PyDict([i \in 1..Len(Present(res.args[2])) |->
                              <<Present(res.args[2])[i],
                                Functor(res.args[2], Present(res.args[2])[i])>>])

\* C18: callees and branch raise on any selection instead of returning a
\* value, and assigning to an entry of a Selector raises and leaves the
\* collection as it was.
C18_MisuseRaises ==
    /\ res.op \in {"callees", "branch"} => IsRaise(res.out)
    /\ res.op = "setitem" => IsRaise(res.out) /\ sel = res.args[1]

RECURSIVE ParentChain(_)
\* the nodes strictly above n: its parent, the parent of that, ...
ParentChain(n) ==
    IF Node(n).parent = None THEN {}
    ELSE {Node(n).parent} \cup ParentChain(Node(n).parent)

\* the nodes strictly below n in the children() subtree
Below(n) == UNION {SubtreeSet(Children(n)[i]) : i \in 1..Len(Children(n))}

\* m matches t: m is the node t, t is true of m, or t is absent
Matching(t, m) ==
    IF t = NoTest THEN TRUE
    ELSE IF t[1] = "fn" THEN m \in t[2]
    ELSE PyNode(m) = t

\* C20: has_ancestor(t)(n) is true exactly when a node strictly above n on
\* the parent chain matches t, has_descendant(t)(n) exactly when a node
\* strictly below n in the children() subtree matches t; both are false for
\* an absent node.
C20_KinTests ==
    /\ res.op = "has_ancestor" =>
          res.out = PyBool(/\ res.args[2] # None
                           /\ \E a \in ParentChain(res.args[2]) : Matching(res.args[1], a))
    /\ res.op = "has_descendant" =>
          res.out = PyBool(/\ res.args[2] # None
                           /\ \E d \in Below(res.args[2]) : Matching(res.args[1], d))

\* has_ancestor found the grandparent of a node that the test is true of,
\* past a parent it is false of
C20_Witness ==
    /\ res.op = "has_ancestor"
    /\ res.args[2] # None
    /\ res.args[1][1] = "fn"
    /\ res.args[2] \in res.args[1][2]
    /\ Node(res.args[2]).parent # None
    /\ Node(res.args[2]).parent \notin res.args[1][2]
    /\ Node(Node(res.args[2]).parent).parent # None
    /\ Node(Node(res.args[2]).parent).parent \in res.args[1][2]
    /\ res.out = PyBool(TRUE)

\* a slot list is the first block of the slot, owned by b, followed by the
\* blocks reached from it through next links
IsNextChainOf(b, lst) ==
    /\ lst # <<>>
    /\ Node(lst[1]).parent = b
    /\ \A k \in 1..(Len(lst) - 1) : Node(lst[k]).next = lst[k + 1]
    /\ Node(lst[Len(lst)]).next = None

\* the children of b are its value inputs, then its statement inputs, slot
\* by slot in insertion order
SlotsInOrder(b) ==
    LET vs == Flatten(DictValues(Node(b).values))
        ss == Flatten(DictValues(Node(b).statements))
    IN /\ Len(Children(b)) = Len(vs) + Len(ss)
       /\ \A k \in 1..Len(vs) : Children(b)[k] = vs[k]
       /\ \A k \in 1..Len(ss) : Children(b)[Len(vs) + k] = ss[k]

\* C21 as stated: children(b) is the value-input children followed by the
\* statement-input children and contains neither b.next nor any block that
\* is attached to its predecessor through a next link.
C21_ChildrenWithoutNextBlocks ==
    \A b \in Nodes : IsBlock(b) =>
        /\ SlotsInOrder(b)
        /\ Node(b).next \notin Range(Children(b))
        /\ \A c \in Range(Children(b)) : ~\E p \in Nodes : IsBlock(p) /\ Node(p).next = c

\* C21, amended: children(b) is the value-input children followed by the
\* statement-input children, slot by slot; the entry of a slot is the first
\* block of the slot followed by every block reached from it through next
\* links, in that order; b.next is never among the children of b.
C21_ChildrenHoldSlotChains ==
    \A b \in Nodes : IsBlock(b) =>
        /\ SlotsInOrder(b)
        /\ Node(b).next \notin Range(Children(b))
        /\ \A lst \in Range(DictValues(Node(b).values))
                        \cup Range(DictValues(Node(b).statements)) :
              IsNextChainOf(b, lst)

\* a block whose statement input holds two blocks, the second the next of
\* the first
C21_Witness ==
    \E b \in Nodes :
        /\ IsBlock(b)
        /\ Len(Children(b)) = 2
        /\ Node(Children(b)[1]).next = Children(b)[2]
        /\ Node(Children(b)[2]).parent = Children(b)[1]

\* C22: evaluating an expression e against an operand, final or deferred,
\* leaves e as it was built.
C22_CallLeavesExpression ==
    res.op = "call" => env[1] = res.args[1]

RECURSIVE Threaded(_, _, _)
\* s_k(...s_2(s_1(v))...): the value of the first k stages on v, an error or
\* a call that does not return ending the chain
Threaded(stages, k, v) ==
    IF k = 0 THEN v
    ELSE LET x == Threaded(stages, k - 1, v)
         IN IF Stops(x) THEN x ELSE CallAny(stages[k], x, MaxReduce)

\* C23: a FunctionComposition applied to a final value returns the value
\* threaded through its stages in the order held, the identity stage last;
\* applied to a deferred operand h it returns itself, its stages then being h
\* followed by the stages it had; f(g) for a computed attribute f and a
\* deferred g, applied to v, returns g(f(v)).
C23_CompositionOrder ==
    res.op = "call" =>
        LET e == res.args[1]
            operand == res.args[2]
        IN /\ (e[1] = "FunctionComposition" /\ ~NeedsEval(operand)) =>
                 /\ e[2][Len(e[2])] = Identity
                 /\ res.out = Threaded(e[2], Len(e[2]), operand)
                 /\ env[1] = e
           /\ (e[1] = "FunctionComposition" /\ NeedsEval(operand)) =>
                 /\ res.out = env[1]
                 /\ env[1] = <<"FunctionComposition", <<operand>> \o e[2]>>
           /\ (e[1] = "ComputedAttribute" /\ NeedsEval(operand)) =>
                 \A v \in CallEntities :
                     CallTerm(res.out, v, MaxReduce) = Threaded(<<e, operand>>, 2, v)

\* a composition of two different stages has been applied to a component:
\* its type, then the name of the type
C23_Witness ==
    /\ res.op = "call"
    /\ res.args[1] = <<"FunctionComposition",
                       <<<<"NamedAttribute", "type">>, <<"NamedAttribute", "name">>, Identity>>>>
    /\ res.args[2] \in CallEntities
    /\ res.out = PyStr("Button")

\* C24: every block of a statement input of p, the first of the slot or one
\* reached through next links, has logical_parent p, and as parent p (the
\* first) or the block before it (the others); a block of a value input has
\* its parent as logical_parent; root_block(b) is a block without parent
\* that root_block maps to itself.
C24_LogicalParents ==
    /\ \A p \in Nodes : IsBlock(p) =>
          /\ \A lst \in Range(DictValues(Node(p).statements)) :
                \A k \in 1..Len(lst) :
                    /\ Node(lst[k]).logical_parent = p
                    /\ Node(lst[k]).parent = IF k = 1 THEN p ELSE lst[k - 1]
          /\ \A lst \in Range(DictValues(Node(p).values)) :
                \A k \in 1..Len(lst) :
                    Node(lst[k]).logical_parent = Node(lst[k]).parent
    /\ (res.op = "root_block" /\ res.args[1] # None) =>
          /\ res.out[1] = "node"
          /\ IsBlock(res.out[2])
          /\ Node(res.out[2]).parent = None
          /\ RootBlock(res.out[2]) = res.out[2]

\* the root of a block whose logical parent is not its parent was looked up
C24_Witness ==
    /\ res.op = "root_block"
    /\ res.args[1] # None
    /\ Node(res.args[1]).logical_parent # Node(res.args[1]).parent
    /\ res.out = PyNode(Node(res.args[1]).logical_parent)

\* the first segment is the instance name of a component of the screen, the
\* screen included
NamesInstance(seg) ==
    seg = env.name \/ \E i \in 1..Len(env.components) : env.components[i].name = seg

\* C25: below language version 17 a block whose type does not start with a
\* category is reclassified exactly when the first segment of the type is
\* the instance name of a component of the screen (component_set_get for
\* setproperty and getproperty, component_event with a DO statement as
\* second child, component_method otherwise), and fails as an unknown block
\* type only when the segment names no component instance.
C25_LegacyReclassification ==
    (res.op = "from_xml" /\ res.args[2] < 17 /\ res.args[1][1] \notin Categories) =>
        IF NamesInstance(res.args[1][1])
        THEN res.out = PyStr(IF res.args[1][2] \in {"setproperty", "getproperty"}
                             THEN "component_set_get"
                             ELSE IF res.args[3] THEN "component_event"
                             ELSE "component_method")
        ELSE res.out = Raise("RuntimeError")

\* C26: on an empty selection no operation raises: count is 0, an
\* aggregation with a group_by is the empty mapping, and avg, min and max
\* without a group_by complete as well.
C26_EmptySelectionNeverRaises ==
    (sel = <<>> /\ res.op \in {"count", "avg", "max", "min"}) =>
        /\ ~IsRaise(res.out)
        /\ res.op = "count" /\ res.args[1] = PyNone => res.out = PyInt(0)
        /\ res.args[1] # PyNone => res.out = PyDict(<<>>)

\* the nodes of the collection that satisfy the expressions of a view
Satisfying(functor) ==
    SelectSeq(DictValues(sel), LAMBDA v : functor = <<NoTest>> \/ ViewAccepts(functor, v))

\* C27: a view of a NamedCollection by an expression (or a tuple of them)
\* iterates to a normal end and yields exactly the nodes of the collection
\* that satisfy it, and count and empty on the view are those of the
\* selection filtered by the expression.
C27_ViewYieldsSatisfyingNodes ==
    /\ (res.op = "view_iter" /\ res.args[1] # <<NoTest>>) =>
          /\ res.out.end = PyNone
          /\ res.out.items = [i \in 1..Len(Satisfying(res.args[1])) |->
                                 PyNode(Satisfying(res.args[1])[i])]
    /\ (res.op = "view_count" /\ res.args[1] # <<NoTest>>) =>
          res.out = PyInt(Len(Satisfying(res.args[1])))
    /\ (res.op = "view_empty" /\ res.args[1] # <<NoTest>>) =>
          res.out = PyBool(Satisfying(res.args[1]) = <<>>)

\* the value of operand x of a comparison at node n
ValueAt(x, n) == IF IsExprTerm(x) THEN CallTerm(x, n, MaxReduce) ELSE x

\* C28: `l == r` is an expression, never a plain boolean, and it accepts a
\* node n exactly when l(n) equals r(n).
C28_EqBuildsExpression ==
    res.op = "eq" =>
       /\ IsExprTerm(res.out[1])
       /\ res.out[2] = IsTrue(PyEq(ValueAt(res.args[1], res.args[3]),
                                   ValueAt(res.args[2], res.args[3])))

\* C29: NotEquals(l, r)(n) is the negation of Equals(l, r)(n): both
\* evaluations end with a boolean, and exactly one of them is true.
C29_NotEqualsNegatesEquals ==
    res.op = "compare" =>
       /\ res.out[1] \in {PyBool(TRUE), PyBool(FALSE)}
       /\ res.out[2] \in {PyBool(TRUE), PyBool(FALSE)}
       /\ res.out[1] # res.out[2]

\* C30: for two blocks a and b of a forest, has_ancestor(a)(b) is true
\* exactly when has_descendant(b)(a) is: the parent chain of b visits a
\* exactly when the children() subtree of a holds b.
C30_AncestorIsInverseOfDescendant ==
    res.op = "kin_pair" =>
       /\ res.out[1] = res.out[2]
       /\ (res.args[1] \in ParentChain(res.args[2])) <=> (res.args[2] \in Below(res.args[1]))

====
